---- MODULE Spec2Model ----
(***************************************************************************)
(* Model of the CV validator / job recommender (Task 10 variant,           *)
(* cv_validator_app.py): skill normalisation, criterion scoring, overall   *)
(* score, seniority classification and the recommender's skill sets.       *)
(*                                                                         *)
(* Text is a sequence of one-character strings, so that strip / lower /    *)
(* re.sub / re.search are computed on characters as the code computes      *)
(* them. Scores are integers in tenths of a point (100 = 10.0) and         *)
(* weights are integers in hundredths (5 = 0.05).                          *)
(***************************************************************************)
EXTENDS Integers, Sequences, FiniteSets, TLC

VARIABLES
  pc,          \* position of the running operation
  results,     \* results map of a scoring request: criterion |-> result
  llm_std,     \* llm_std argument of calculate_overall_score, in tenths
  blind_mode,  \* blind_mode form field of the request
  overall,     \* value returned by calculate_overall_score
  cv_file,     \* the uploaded CV: what each check function finds in it
  token,       \* argument of normalize_token
  once,        \* normalize_token(token)
  twice,       \* normalize_token(once)
  words,       \* the words the text was written from, in order
  cv_text,     \* text handed to extract_skills_from_text / estimate_cv_level
  found,       \* extract_skills_from_text(cv_text)
  refound,     \* extract_skills_from_text(" ".join(found))
  skills_in,   \* list argument of clean_skill_list
  cleaned,     \* clean_skill_list(skills_in)
  recleaned,   \* clean_skill_list(cleaned)
  cleaned_str, \* clean_skill_list(",".join(skills_in))
  cv_level,    \* estimate_cv_level(cv_text)
  corpus,      \* rows of the job dataset file
  df,          \* the job rows with their derived fields
  user_skills, \* build_user_skills_from_cv(results, cv_text)
  jobs,        \* list returned by get_job_recommendations
  job_title,   \* title of a job posting
  job_desc,    \* description of a job posting
  job_level,   \* classify_job_level(job_title, job_desc)
  seniority_mode,\* mode argument of apply_seniority_handling
  top_n,       \* top_n argument of get_job_recommendations
  scored,      \* title, company and final_score of the rows that were ranked
  pdf_opens,   \* whether pymupdf.open can read the uploaded file
  groq_api_key, \* whether a Groq API key is configured
  raw,         \* the reply of the LLM
  llm_result,  \* value returned by validate_with_llm
  inodes,      \* contents of every file, by file id
  dir,         \* the directory: file id of every path
  wpc,         \* position of each _safe_to_csv call
  rpc,         \* position of the reader
  handle,      \* file id the reader has opened
  seen,        \* rows the reader has read
  upload_dir,  \* the upload folder: whose document each temporary file holds
  rq,          \* each upload request: position, temporary path, documents read
  line,        \* the line check_skills_separation (Task 06) has just read
  n_lines,     \* number of lines read
  current_section, \* section mode of the scan
  seen_any_skills_header, \* whether a skills header line has been read
  soft_skills, \* the soft bucket
  technical_skills, \* the technical bucket
  mixed_section_lines, \* lines read under a generic Skills header
  skills_result,\* value returned by check_skills_separation (Task 06)
  pieces,      \* the fragments the text of the CV was written from
  full_text,   \* bundle["text"] of the CV
  email_result,\* the result of check_professional_email, None before the check
  job_matcher_instance, \* the module global _job_matcher_instance: the number of a matcher, or NoMatcher
  matchers,    \* the JobMatcher objects created so far: the frame self.df of each
  matcher,     \* the matcher the caller holds
  call,        \* the last call on the matcher and what it returned
  cv_links,    \* the GitHub links of the CV, each with its type and whether it is reachable
  github_result,\* the result of validate_github_links on cv_links
  cache_file,  \* the scrape cache on disk: the description stored for each URL
  runs         \* the enrich_csv_with_descriptions runs: their frame, their cache dict and where they are

vars == <<pc, results, llm_std, blind_mode, overall, cv_file, token, once, twice,
          words, cv_text, found, refound, skills_in, cleaned, recleaned, cleaned_str,
          cv_level, corpus, df, user_skills, jobs,
          job_title, job_desc, job_level,
          seniority_mode,
          top_n, scored,
          pdf_opens,
          groq_api_key, raw, llm_result,
          inodes, dir, wpc, rpc, handle, seen,
          upload_dir, rq,
          line, n_lines, current_section, seen_any_skills_header, soft_skills, technical_skills, mixed_section_lines, skills_result,
          pieces, full_text, email_result,
          job_matcher_instance, matchers, matcher, call,
          cv_links, github_result,
          cache_file, runs>>

\* "not computed yet"
None == "None"

(***************************************************************************)
(* Characters and str methods                                              *)
(***************************************************************************)
DIGITS == {"0","1","2","3","4","5","6","7","8","9"}

ASCII_LOWER ==
  <<"a","b","c","d","e","f","g","h","i","j","k","l","m",
    "n","o","p","q","r","s","t","u","v","w","x","y","z">>

ASCII_UPPER ==
  <<"A","B","C","D","E","F","G","H","I","J","K","L","M",
    "N","O","P","Q","R","S","T","U","V","W","X","Y","Z">>

LowerLetters == {ASCII_LOWER[i] : i \in DOMAIN ASCII_LOWER}

UpperLetters == {ASCII_UPPER[i] : i \in DOMAIN ASCII_UPPER}

\* str.lower() on one character
LowerChar(c) ==
  IF c \in UpperLetters
    THEN ASCII_LOWER[CHOOSE i \in DOMAIN ASCII_UPPER : ASCII_UPPER[i] = c]
    ELSE c

\* \s of re and the whitespace of str.strip()
IsSpace(c) == c \in {" ", "\t", "\n"}

\* \w of re
IsWordChar(c) == c \in LowerLetters \cup UpperLetters \cup DIGITS \cup {"_"}

SeqMin(S) == CHOOSE x \in S : \A y \in S : x <= y

SeqMax(S) == CHOOSE x \in S : \A y \in S : x >= y

\* s.strip()
strip(s) ==
  LET keep == {i \in DOMAIN s : ~IsSpace(s[i])}
  IN  IF keep = {} THEN <<>> ELSE SubSeq(s, SeqMin(keep), SeqMax(keep))

\* s.lower()
lower(s) == [i \in DOMAIN s |-> LowerChar(s[i])]

RECURSIVE SkipSpaces(_)
SkipSpaces(s) ==
  IF s # <<>> /\ IsSpace(Head(s)) THEN SkipSpaces(Tail(s)) ELSE s

\* re.sub(r"\s+", " ", s): every maximal run of whitespace becomes one space
RECURSIVE re_sub_spaces(_)
re_sub_spaces(s) ==
  IF s = <<>> THEN <<>>
  ELSE IF IsSpace(Head(s)) THEN <<" ">> \o re_sub_spaces(SkipSpaces(Tail(s)))
  ELSE <<Head(s)>> \o re_sub_spaces(Tail(s))

\* sep.join(items)
RECURSIVE join(_, _)
join(sep, items) ==
  IF items = <<>> THEN <<>>
  ELSE IF Len(items) = 1 THEN items[1]
  ELSE items[1] \o sep \o join(sep, Tail(items))

\* list(dict.fromkeys(items)): drop repeats, keep the first occurrence's place
dict_fromkeys(items) ==
  LET first == {i \in DOMAIN items : \A j \in 1..(i - 1) : items[j] # items[i]}
      F[n \in 0..Len(items)] ==
        IF n = 0 THEN <<>>
        ELSE IF n \in first THEN Append(F[n - 1], items[n]) ELSE F[n - 1]
  IN  F[Len(items)]

\* the elements of a list
Elems(items) == {items[i] : i \in DOMAIN items}

(***************************************************************************)
(* Regular expressions: the constructs the patterns of the program use,    *)
(* matched with re.IGNORECASE                                              *)
(***************************************************************************)
WB == [k |-> "wb"]                                   \* \b

Lit(s) == [k |-> "lit", s |-> s]                     \* literal characters

Star(cls) == [k |-> "rep", cls |-> cls, min |-> 0, max |-> -1]   \* [cls]*

Plus(cls) == [k |-> "rep", cls |-> cls, min |-> 1, max |-> -1]   \* [cls]+

RepN(cls, lo, hi) == [k |-> "rep", cls |-> cls, min |-> lo, max |-> hi]

One(cls) == [k |-> "rep", cls |-> cls, min |-> 1, max |-> 1]     \* [cls]

Opt(p) == [k |-> "opt", p |-> p]                     \* (?:p)?

Alt(alts) == [k |-> "alt", alts |-> alts]            \* p1|p2|...

Grp(p) == [k |-> "grp", p |-> p]                     \* (p)

Nla(p) == [k |-> "nla", p |-> p]                     \* (?!p)

\* a character class: literal characters, \s ("SPACE"), \d ("DIGIT")
CharIn(c, cls) ==
  \/ LowerChar(c) \in cls
  \/ "SPACE" \in cls /\ IsSpace(c)
  \/ "DIGIT" \in cls /\ c \in DIGITS

\* \b at position i of t (between t[i-1] and t[i])
AtBoundary(t, i) ==
  LET before == i > 1 /\ IsWordChar(t[i - 1])
      after  == i <= Len(t) /\ IsWordChar(t[i])
  IN  before # after

\* MatchEnds(p, n, t, i): the positions where a match of the nodes n.. of
\* pattern p that starts at position i of t can end
RECURSIVE MatchEnds(_, _, _, _), NodeEnds(_, _, _)
NodeEnds(h, t, i) ==
  CASE h.k = "wb"  -> IF AtBoundary(t, i) THEN {i} ELSE {}
    [] h.k = "lit" -> IF /\ i + Len(h.s) - 1 <= Len(t)
                         /\ \A j \in 1..Len(h.s) : LowerChar(t[i + j - 1]) = h.s[j]
                        THEN {i + Len(h.s)} ELSE {}
    [] h.k = "rep" -> {j \in (i + h.min)..(IF h.max < 0 THEN Len(t) + 1
                                            ELSE SeqMin({Len(t) + 1, i + h.max})) :
                         \A m \in i..(j - 1) : CharIn(t[m], h.cls)}
    [] h.k = "opt" -> {i} \cup MatchEnds(h.p, 1, t, i)
    [] h.k = "alt" -> UNION {MatchEnds(h.alts[a], 1, t, i) : a \in DOMAIN h.alts}
    [] h.k = "grp" -> MatchEnds(h.p, 1, t, i)
    [] h.k = "nla" -> IF MatchEnds(h.p, 1, t, i) = {} THEN {i} ELSE {}

MatchEnds(p, n, t, i) ==
  IF n > Len(p) THEN {i}
  ELSE UNION {MatchEnds(p, n + 1, t, m) : m \in NodeEnds(p[n], t, i)}

\* bool(re.search(p, t, flags=re.IGNORECASE))
re_search(p, t) == \E i \in 1..(Len(t) + 1) : MatchEnds(p, 1, t, i) # {}

(***************************************************************************)
(* Tables of the program                                                   *)
(***************************************************************************)
TECH_KEYWORD_VARIANTS ==
  <<
    \* Java: \bjava\b(?!\s*script)
    [label |-> <<"J","a","v","a">>,
     patterns |-> <<<<WB, Lit(<<"j","a","v","a">>), WB, Nla(<<Star({"SPACE"}), Lit(<<"s","c","r","i","p","t">>)>>)>>>>],
    \* Python: \bpython\b
    [label |-> <<"P","y","t","h","o","n">>,
     patterns |-> <<<<WB, Lit(<<"p","y","t","h","o","n">>), WB>>>>],
    \* JavaScript: \bjavascript\b  \bjs\b
    [label |-> <<"J","a","v","a","S","c","r","i","p","t">>,
     patterns |-> <<<<WB, Lit(<<"j","a","v","a","s","c","r","i","p","t">>), WB>>,
                    <<WB, Lit(<<"j","s">>), WB>>>>],
    \* C#: \bc\s*#\b  \bcsharp\b  \bc\s*sharp\b
    [label |-> <<"C","#">>,
     patterns |-> <<<<WB, Lit(<<"c">>), Star({"SPACE"}), Lit(<<"#">>), WB>>,
                    <<WB, Lit(<<"c","s","h","a","r","p">>), WB>>,
                    <<WB, Lit(<<"c">>), Star({"SPACE"}), Lit(<<"s","h","a","r","p">>), WB>>>>],
    \* C++: \bc\+\+\b
    [label |-> <<"C","+","+">>,
     patterns |-> <<<<WB, Lit(<<"c","+","+">>), WB>>>>],
    \* MySQL: \bmysql\b
    [label |-> <<"M","y","S","Q","L">>,
     patterns |-> <<<<WB, Lit(<<"m","y","s","q","l">>), WB>>>>],
    \* PostgreSQL: \bpostgres(?:ql)?\b
    [label |-> <<"P","o","s","t","g","r","e","S","Q","L">>,
     patterns |-> <<<<WB, Lit(<<"p","o","s","t","g","r","e","s">>), Opt(<<Lit(<<"q","l">>)>>), WB>>>>],
    \* MongoDB: \bmongo(?:db)?\b
    [label |-> <<"M","o","n","g","o","D","B">>,
     patterns |-> <<<<WB, Lit(<<"m","o","n","g","o">>), Opt(<<Lit(<<"d","b">>)>>), WB>>>>],
    \* Oracle: \boracle\b
    [label |-> <<"O","r","a","c","l","e">>,
     patterns |-> <<<<WB, Lit(<<"o","r","a","c","l","e">>), WB>>>>],
    \* Git: \bgit\b
    [label |-> <<"G","i","t">>,
     patterns |-> <<<<WB, Lit(<<"g","i","t">>), WB>>>>],
    \* GitHub: \bgithub\b
    [label |-> <<"G","i","t","H","u","b">>,
     patterns |-> <<<<WB, Lit(<<"g","i","t","h","u","b">>), WB>>>>],
    \* GitLab: \bgitlab\b
    [label |-> <<"G","i","t","L","a","b">>,
     patterns |-> <<<<WB, Lit(<<"g","i","t","l","a","b">>), WB>>>>],
    \* HTML5: \bhtml5\b  \bhtml\b
    [label |-> <<"H","T","M","L","5">>,
     patterns |-> <<<<WB, Lit(<<"h","t","m","l","5">>), WB>>,
                    <<WB, Lit(<<"h","t","m","l">>), WB>>>>],
    \* CSS3: \bcss3\b  \bcss\b
    [label |-> <<"C","S","S","3">>,
     patterns |-> <<<<WB, Lit(<<"c","s","s","3">>), WB>>,
                    <<WB, Lit(<<"c","s","s">>), WB>>>>],
    \* React: \breact(?:\.js|js)?\b
    [label |-> <<"R","e","a","c","t">>,
     patterns |-> <<<<WB, Lit(<<"r","e","a","c","t">>), Opt(<<Alt(<<<<Lit(<<".","j","s">>)>>, <<Lit(<<"j","s">>)>>>>)>>), WB>>>>],
    \* Angular: \bangular\b  \bangularjs\b
    [label |-> <<"A","n","g","u","l","a","r">>,
     patterns |-> <<<<WB, Lit(<<"a","n","g","u","l","a","r">>), WB>>,
                    <<WB, Lit(<<"a","n","g","u","l","a","r","j","s">>), WB>>>>],
    \* Vue.js: \bvue(?:\.js|js)?\b
    [label |-> <<"V","u","e",".","j","s">>,
     patterns |-> <<<<WB, Lit(<<"v","u","e">>), Opt(<<Alt(<<<<Lit(<<".","j","s">>)>>, <<Lit(<<"j","s">>)>>>>)>>), WB>>>>],
    \* Node.js: \bnode(?:\.js|js)?\b
    [label |-> <<"N","o","d","e",".","j","s">>,
     patterns |-> <<<<WB, Lit(<<"n","o","d","e">>), Opt(<<Alt(<<<<Lit(<<".","j","s">>)>>, <<Lit(<<"j","s">>)>>>>)>>), WB>>>>],
    \* Express: \bexpress(?:\.js|js)?\b
    [label |-> <<"E","x","p","r","e","s","s">>,
     patterns |-> <<<<WB, Lit(<<"e","x","p","r","e","s","s">>), Opt(<<Alt(<<<<Lit(<<".","j","s">>)>>, <<Lit(<<"j","s">>)>>>>)>>), WB>>>>],
    \* Django: \bdjango\b
    [label |-> <<"D","j","a","n","g","o">>,
     patterns |-> <<<<WB, Lit(<<"d","j","a","n","g","o">>), WB>>>>],
    \* Flask: \bflask\b
    [label |-> <<"F","l","a","s","k">>,
     patterns |-> <<<<WB, Lit(<<"f","l","a","s","k">>), WB>>>>],
    \* Spring Boot: \bspring\s*boot\b  \bspringboot\b
    [label |-> <<"S","p","r","i","n","g"," ","B","o","o","t">>,
     patterns |-> <<<<WB, Lit(<<"s","p","r","i","n","g">>), Star({"SPACE"}), Lit(<<"b","o","o","t">>), WB>>,
                    <<WB, Lit(<<"s","p","r","i","n","g","b","o","o","t">>), WB>>>>],
    \* Spring: \bspring\b
    [label |-> <<"S","p","r","i","n","g">>,
     patterns |-> <<<<WB, Lit(<<"s","p","r","i","n","g">>), WB>>>>],
    \* Android: \bandroid\b
    [label |-> <<"A","n","d","r","o","i","d">>,
     patterns |-> <<<<WB, Lit(<<"a","n","d","r","o","i","d">>), WB>>>>],
    \* iOS: \bios\b
    [label |-> <<"i","O","S">>,
     patterns |-> <<<<WB, Lit(<<"i","o","s">>), WB>>>>],
    \* Flutter: \bflutter\b
    [label |-> <<"F","l","u","t","t","e","r">>,
     patterns |-> <<<<WB, Lit(<<"f","l","u","t","t","e","r">>), WB>>>>],
    \* React Native: \breact\s*native\b
    [label |-> <<"R","e","a","c","t"," ","N","a","t","i","v","e">>,
     patterns |-> <<<<WB, Lit(<<"r","e","a","c","t">>), Star({"SPACE"}), Lit(<<"n","a","t","i","v","e">>), WB>>>>],
    \* AWS: \baws\b  \bamazon\s+web\s+services\b
    [label |-> <<"A","W","S">>,
     patterns |-> <<<<WB, Lit(<<"a","w","s">>), WB>>,
                    <<WB, Lit(<<"a","m","a","z","o","n">>), Plus({"SPACE"}), Lit(<<"w","e","b">>), Plus({"SPACE"}), Lit(<<"s","e","r","v","i","c","e","s">>), WB>>>>],
    \* Azure: \bazure\b
    [label |-> <<"A","z","u","r","e">>,
     patterns |-> <<<<WB, Lit(<<"a","z","u","r","e">>), WB>>>>],
    \* GCP: \bgcp\b  \bgoogle\s+cloud\b
    [label |-> <<"G","C","P">>,
     patterns |-> <<<<WB, Lit(<<"g","c","p">>), WB>>,
                    <<WB, Lit(<<"g","o","o","g","l","e">>), Plus({"SPACE"}), Lit(<<"c","l","o","u","d">>), WB>>>>],
    \* Docker: \bdocker\b
    [label |-> <<"D","o","c","k","e","r">>,
     patterns |-> <<<<WB, Lit(<<"d","o","c","k","e","r">>), WB>>>>],
    \* Kubernetes: \bkubernetes\b  \bk8s\b
    [label |-> <<"K","u","b","e","r","n","e","t","e","s">>,
     patterns |-> <<<<WB, Lit(<<"k","u","b","e","r","n","e","t","e","s">>), WB>>,
                    <<WB, Lit(<<"k","8","s">>), WB>>>>],
    \* REST API: \brest(?:ful)?\s*api(?:s)?\b
    [label |-> <<"R","E","S","T"," ","A","P","I">>,
     patterns |-> <<<<WB, Lit(<<"r","e","s","t">>), Opt(<<Lit(<<"f","u","l">>)>>), Star({"SPACE"}), Lit(<<"a","p","i">>), Opt(<<Lit(<<"s">>)>>), WB>>>>],
    \* GraphQL: \bgraphql\b
    [label |-> <<"G","r","a","p","h","Q","L">>,
     patterns |-> <<<<WB, Lit(<<"g","r","a","p","h","q","l">>), WB>>>>],
    \* Microservices: \bmicroservices?\b
    [label |-> <<"M","i","c","r","o","s","e","r","v","i","c","e","s">>,
     patterns |-> <<<<WB, Lit(<<"m","i","c","r","o","s","e","r","v","i","c","e">>), Opt(<<Lit(<<"s">>)>>), WB>>>>],
    \* Agile: \bagile\b
    [label |-> <<"A","g","i","l","e">>,
     patterns |-> <<<<WB, Lit(<<"a","g","i","l","e">>), WB>>>>],
    \* Scrum: \bscrum\b
    [label |-> <<"S","c","r","u","m">>,
     patterns |-> <<<<WB, Lit(<<"s","c","r","u","m">>), WB>>>>],
    \* JIRA: \bjira\b
    [label |-> <<"J","I","R","A">>,
     patterns |-> <<<<WB, Lit(<<"j","i","r","a">>), WB>>>>],
    \* TypeScript: \btypescript\b
    [label |-> <<"T","y","p","e","S","c","r","i","p","t">>,
     patterns |-> <<<<WB, Lit(<<"t","y","p","e","s","c","r","i","p","t">>), WB>>>>],
    \* PHP: \bphp\b
    [label |-> <<"P","H","P">>,
     patterns |-> <<<<WB, Lit(<<"p","h","p">>), WB>>>>],
    \* Ruby: \bruby\b
    [label |-> <<"R","u","b","y">>,
     patterns |-> <<<<WB, Lit(<<"r","u","b","y">>), WB>>>>],
    \* Go: \bgolang\b  \bgo\b
    [label |-> <<"G","o">>,
     patterns |-> <<<<WB, Lit(<<"g","o","l","a","n","g">>), WB>>,
                    <<WB, Lit(<<"g","o">>), WB>>>>],
    \* Kotlin: \bkotlin\b
    [label |-> <<"K","o","t","l","i","n">>,
     patterns |-> <<<<WB, Lit(<<"k","o","t","l","i","n">>), WB>>>>],
    \* Swift: \bswift\b
    [label |-> <<"S","w","i","f","t">>,
     patterns |-> <<<<WB, Lit(<<"s","w","i","f","t">>), WB>>>>],
    \* Scala: \bscala\b
    [label |-> <<"S","c","a","l","a">>,
     patterns |-> <<<<WB, Lit(<<"s","c","a","l","a">>), WB>>>>],
    \* Rust: \brust\b
    [label |-> <<"R","u","s","t">>,
     patterns |-> <<<<WB, Lit(<<"r","u","s","t">>), WB>>>>],
    \* Next.js: \bnext\.?js\b
    [label |-> <<"N","e","x","t",".","j","s">>,
     patterns |-> <<<<WB, Lit(<<"n","e","x","t">>), Opt(<<Lit(<<".">>)>>), Lit(<<"j","s">>), WB>>>>],
    \* Tailwind: \btailwind\b
    [label |-> <<"T","a","i","l","w","i","n","d">>,
     patterns |-> <<<<WB, Lit(<<"t","a","i","l","w","i","n","d">>), WB>>>>],
    \* Redux: \bredux\b
    [label |-> <<"R","e","d","u","x">>,
     patterns |-> <<<<WB, Lit(<<"r","e","d","u","x">>), WB>>>>],
    \* Laravel: \blaravel\b
    [label |-> <<"L","a","r","a","v","e","l">>,
     patterns |-> <<<<WB, Lit(<<"l","a","r","a","v","e","l">>), WB>>>>],
    \* ASP.NET: \basp\.net\b  \basp\s+net\b
    [label |-> <<"A","S","P",".","N","E","T">>,
     patterns |-> <<<<WB, Lit(<<"a","s","p",".","n","e","t">>), WB>>,
                    <<WB, Lit(<<"a","s","p">>), Plus({"SPACE"}), Lit(<<"n","e","t">>), WB>>>>],
    \* FastAPI: \bfastapi\b
    [label |-> <<"F","a","s","t","A","P","I">>,
     patterns |-> <<<<WB, Lit(<<"f","a","s","t","a","p","i">>), WB>>>>],
    \* SQL: \bsql\b  \bt-sql\b  \bpl\.sql\b
    [label |-> <<"S","Q","L">>,
     patterns |-> <<<<WB, Lit(<<"s","q","l">>), WB>>,
                    <<WB, Lit(<<"t","-","s","q","l">>), WB>>,
                    <<WB, Lit(<<"p","l",".","s","q","l">>), WB>>>>],
    \* Redis: \bredis\b
    [label |-> <<"R","e","d","i","s">>,
     patterns |-> <<<<WB, Lit(<<"r","e","d","i","s">>), WB>>>>],
    \* Elasticsearch: \belasticsearch\b
    [label |-> <<"E","l","a","s","t","i","c","s","e","a","r","c","h">>,
     patterns |-> <<<<WB, Lit(<<"e","l","a","s","t","i","c","s","e","a","r","c","h">>), WB>>>>],
    \* SQLite: \bsqlite\b
    [label |-> <<"S","Q","L","i","t","e">>,
     patterns |-> <<<<WB, Lit(<<"s","q","l","i","t","e">>), WB>>>>],
    \* DynamoDB: \bdynamodb\b
    [label |-> <<"D","y","n","a","m","o","D","B">>,
     patterns |-> <<<<WB, Lit(<<"d","y","n","a","m","o","d","b">>), WB>>>>],
    \* Cassandra: \bcassandra\b
    [label |-> <<"C","a","s","s","a","n","d","r","a">>,
     patterns |-> <<<<WB, Lit(<<"c","a","s","s","a","n","d","r","a">>), WB>>>>],
    \* CI/CD: \bci/cd\b  \bcicd\b  \bjenkins\b  \bgithub\s+actions\b  \bgitlab\s+ci\b
    [label |-> <<"C","I","/","C","D">>,
     patterns |-> <<<<WB, Lit(<<"c","i","/","c","d">>), WB>>,
                    <<WB, Lit(<<"c","i","c","d">>), WB>>,
                    <<WB, Lit(<<"j","e","n","k","i","n","s">>), WB>>,
                    <<WB, Lit(<<"g","i","t","h","u","b">>), Plus({"SPACE"}), Lit(<<"a","c","t","i","o","n","s">>), WB>>,
                    <<WB, Lit(<<"g","i","t","l","a","b">>), Plus({"SPACE"}), Lit(<<"c","i">>), WB>>>>],
    \* Terraform: \bterraform\b
    [label |-> <<"T","e","r","r","a","f","o","r","m">>,
     patterns |-> <<<<WB, Lit(<<"t","e","r","r","a","f","o","r","m">>), WB>>>>],
    \* Linux: \blinux\b  \bubuntu\b  \bcentos\b
    [label |-> <<"L","i","n","u","x">>,
     patterns |-> <<<<WB, Lit(<<"l","i","n","u","x">>), WB>>,
                    <<WB, Lit(<<"u","b","u","n","t","u">>), WB>>,
                    <<WB, Lit(<<"c","e","n","t","o","s">>), WB>>>>],
    \* gRPC: \bgrpc\b
    [label |-> <<"g","R","P","C">>,
     patterns |-> <<<<WB, Lit(<<"g","r","p","c">>), WB>>>>],
    \* Machine Learning: \bmachine\s+learning\b
    [label |-> <<"M","a","c","h","i","n","e"," ","L","e","a","r","n","i","n","g">>,
     patterns |-> <<<<WB, Lit(<<"m","a","c","h","i","n","e">>), Plus({"SPACE"}), Lit(<<"l","e","a","r","n","i","n","g">>), WB>>>>],
    \* Deep Learning: \bdeep\s+learning\b
    [label |-> <<"D","e","e","p"," ","L","e","a","r","n","i","n","g">>,
     patterns |-> <<<<WB, Lit(<<"d","e","e","p">>), Plus({"SPACE"}), Lit(<<"l","e","a","r","n","i","n","g">>), WB>>>>],
    \* TensorFlow: \btensorflow\b
    [label |-> <<"T","e","n","s","o","r","F","l","o","w">>,
     patterns |-> <<<<WB, Lit(<<"t","e","n","s","o","r","f","l","o","w">>), WB>>>>],
    \* PyTorch: \bpytorch\b
    [label |-> <<"P","y","T","o","r","c","h">>,
     patterns |-> <<<<WB, Lit(<<"p","y","t","o","r","c","h">>), WB>>>>],
    \* Pandas: \bpandas\b
    [label |-> <<"P","a","n","d","a","s">>,
     patterns |-> <<<<WB, Lit(<<"p","a","n","d","a","s">>), WB>>>>],
    \* NumPy: \bnumpy\b
    [label |-> <<"N","u","m","P","y">>,
     patterns |-> <<<<WB, Lit(<<"n","u","m","p","y">>), WB>>>>],
    \* scikit-learn: \bscikit[\-.]learn\b  \bsklearn\b
    [label |-> <<"s","c","i","k","i","t","-","l","e","a","r","n">>,
     patterns |-> <<<<WB, Lit(<<"s","c","i","k","i","t">>), One({"-","."}), Lit(<<"l","e","a","r","n">>), WB>>,
                    <<WB, Lit(<<"s","k","l","e","a","r","n">>), WB>>>>],
    \* Spark: \bapache\s+spark\b  \bpyspark\b  \bspark\b
    [label |-> <<"S","p","a","r","k">>,
     patterns |-> <<<<WB, Lit(<<"a","p","a","c","h","e">>), Plus({"SPACE"}), Lit(<<"s","p","a","r","k">>), WB>>,
                    <<WB, Lit(<<"p","y","s","p","a","r","k">>), WB>>,
                    <<WB, Lit(<<"s","p","a","r","k">>), WB>>>>],
    \* Hadoop: \bhadoop\b
    [label |-> <<"H","a","d","o","o","p">>,
     patterns |-> <<<<WB, Lit(<<"h","a","d","o","o","p">>), WB>>>>],
    \* Tableau: \btableau\b
    [label |-> <<"T","a","b","l","e","a","u">>,
     patterns |-> <<<<WB, Lit(<<"t","a","b","l","e","a","u">>), WB>>>>],
    \* Power BI: \bpower\s+bi\b  \bpowerbi\b
    [label |-> <<"P","o","w","e","r"," ","B","I">>,
     patterns |-> <<<<WB, Lit(<<"p","o","w","e","r">>), Plus({"SPACE"}), Lit(<<"b","i">>), WB>>,
                    <<WB, Lit(<<"p","o","w","e","r","b","i">>), WB>>>>],
    \* Selenium: \bselenium\b
    [label |-> <<"S","e","l","e","n","i","u","m">>,
     patterns |-> <<<<WB, Lit(<<"s","e","l","e","n","i","u","m">>), WB>>>>],
    \* JUnit: \bjunit\b
    [label |-> <<"J","U","n","i","t">>,
     patterns |-> <<<<WB, Lit(<<"j","u","n","i","t">>), WB>>>>],
    \* Jest: \bjest\b
    [label |-> <<"J","e","s","t">>,
     patterns |-> <<<<WB, Lit(<<"j","e","s","t">>), WB>>>>],
    \* Pytest: \bpytest\b
    [label |-> <<"P","y","t","e","s","t">>,
     patterns |-> <<<<WB, Lit(<<"p","y","t","e","s","t">>), WB>>>>],
    \* Figma: \bfigma\b
    [label |-> <<"F","i","g","m","a">>,
     patterns |-> <<<<WB, Lit(<<"f","i","g","m","a">>), WB>>>>],
    \* Photoshop: \bphotoshop\b
    [label |-> <<"P","h","o","t","o","s","h","o","p">>,
     patterns |-> <<<<WB, Lit(<<"p","h","o","t","o","s","h","o","p">>), WB>>>>]
  >>

TITLE_SKILL_MAP ==
  <<
    [keyword |-> <<"r","e","a","c","t">>,
     skills |-> <<<<"R","e","a","c","t">>, <<"J","a","v","a","S","c","r","i","p","t">>, <<"H","T","M","L","5">>, <<"C","S","S","3">>, <<"N","o","d","e",".","j","s">>, <<"R","e","d","u","x">>>>],
    [keyword |-> <<"a","n","g","u","l","a","r">>,
     skills |-> <<<<"A","n","g","u","l","a","r">>, <<"T","y","p","e","S","c","r","i","p","t">>, <<"J","a","v","a","S","c","r","i","p","t">>, <<"H","T","M","L","5">>, <<"C","S","S","3">>>>],
    [keyword |-> <<"v","u","e">>,
     skills |-> <<<<"V","u","e",".","j","s">>, <<"J","a","v","a","S","c","r","i","p","t">>, <<"H","T","M","L","5">>, <<"C","S","S","3">>>>],
    [keyword |-> <<"f","r","o","n","t","e","n","d">>,
     skills |-> <<<<"J","a","v","a","S","c","r","i","p","t">>, <<"H","T","M","L","5">>, <<"C","S","S","3">>, <<"R","e","a","c","t">>>>],
    [keyword |-> <<"n","o","d","e">>,
     skills |-> <<<<"N","o","d","e",".","j","s">>, <<"J","a","v","a","S","c","r","i","p","t">>, <<"E","x","p","r","e","s","s">>, <<"M","o","n","g","o","D","B">>, <<"R","E","S","T"," ","A","P","I">>>>],
    [keyword |-> <<"p","y","t","h","o","n">>,
     skills |-> <<<<"P","y","t","h","o","n">>, <<"D","j","a","n","g","o">>, <<"F","l","a","s","k">>, <<"S","Q","L">>, <<"R","E","S","T"," ","A","P","I">>>>],
    [keyword |-> <<"d","j","a","n","g","o">>,
     skills |-> <<<<"P","y","t","h","o","n">>, <<"D","j","a","n","g","o">>, <<"S","Q","L">>, <<"R","E","S","T"," ","A","P","I">>>>],
    [keyword |-> <<"f","l","a","s","k">>,
     skills |-> <<<<"P","y","t","h","o","n">>, <<"F","l","a","s","k">>, <<"R","E","S","T"," ","A","P","I">>, <<"S","Q","L">>>>],
    [keyword |-> <<"f","a","s","t","a","p","i">>,
     skills |-> <<<<"P","y","t","h","o","n">>, <<"F","a","s","t","A","P","I">>, <<"R","E","S","T"," ","A","P","I">>, <<"P","o","s","t","g","r","e","S","Q","L">>>>],
    [keyword |-> <<"j","a","v","a">>,
     skills |-> <<<<"J","a","v","a">>, <<"S","p","r","i","n","g"," ","B","o","o","t">>, <<"S","Q","L">>, <<"R","E","S","T"," ","A","P","I">>>>],
    [keyword |-> <<"s","p","r","i","n","g">>,
     skills |-> <<<<"J","a","v","a">>, <<"S","p","r","i","n","g"," ","B","o","o","t">>, <<"S","Q","L">>, <<"R","E","S","T"," ","A","P","I">>>>],
    [keyword |-> <<"p","h","p">>,
     skills |-> <<<<"P","H","P">>, <<"M","y","S","Q","L">>, <<"H","T","M","L","5">>, <<"C","S","S","3">>, <<"L","a","r","a","v","e","l">>>>],
    [keyword |-> <<"l","a","r","a","v","e","l">>,
     skills |-> <<<<"P","H","P">>, <<"L","a","r","a","v","e","l">>, <<"M","y","S","Q","L">>, <<"R","E","S","T"," ","A","P","I">>>>],
    [keyword |-> <<"d","o","t","n","e","t">>,
     skills |-> <<<<"C","#">>, <<"A","S","P",".","N","E","T">>, <<"S","Q","L">>, <<"R","E","S","T"," ","A","P","I">>>>],
    [keyword |-> <<".","n","e","t">>,
     skills |-> <<<<"C","#">>, <<"A","S","P",".","N","E","T">>, <<"S","Q","L">>, <<"R","E","S","T"," ","A","P","I">>>>],
    [keyword |-> <<"f","u","l","l","s","t","a","c","k">>,
     skills |-> <<<<"J","a","v","a","S","c","r","i","p","t">>, <<"R","e","a","c","t">>, <<"N","o","d","e",".","j","s">>, <<"S","Q","L">>, <<"R","E","S","T"," ","A","P","I">>>>],
    [keyword |-> <<"f","u","l","l"," ","s","t","a","c","k">>,
     skills |-> <<<<"J","a","v","a","S","c","r","i","p","t">>, <<"R","e","a","c","t">>, <<"N","o","d","e",".","j","s">>, <<"S","Q","L">>, <<"R","E","S","T"," ","A","P","I">>>>],
    [keyword |-> <<"b","a","c","k","e","n","d">>,
     skills |-> <<<<"R","E","S","T"," ","A","P","I">>, <<"S","Q","L">>, <<"P","y","t","h","o","n">>, <<"N","o","d","e",".","j","s">>>>],
    [keyword |-> <<"d","e","v","o","p","s">>,
     skills |-> <<<<"D","o","c","k","e","r">>, <<"K","u","b","e","r","n","e","t","e","s">>, <<"C","I","/","C","D">>, <<"L","i","n","u","x">>, <<"A","W","S">>>>],
    [keyword |-> <<"c","l","o","u","d">>,
     skills |-> <<<<"A","W","S">>, <<"A","z","u","r","e">>, <<"G","C","P">>, <<"D","o","c","k","e","r">>, <<"T","e","r","r","a","f","o","r","m">>>>],
    [keyword |-> <<"a","w","s">>,
     skills |-> <<<<"A","W","S">>, <<"D","o","c","k","e","r">>, <<"T","e","r","r","a","f","o","r","m">>, <<"L","i","n","u","x">>, <<"C","I","/","C","D">>>>],
    [keyword |-> <<"d","a","t","a"," ","e","n","g","i","n","e","e","r">>,
     skills |-> <<<<"P","y","t","h","o","n">>, <<"S","Q","L">>, <<"S","p","a","r","k">>, <<"H","a","d","o","o","p">>>>],
    [keyword |-> <<"d","a","t","a"," ","s","c","i","e","n","t","i","s","t">>,
     skills |-> <<<<"P","y","t","h","o","n">>, <<"M","a","c","h","i","n","e"," ","L","e","a","r","n","i","n","g">>, <<"P","a","n","d","a","s">>, <<"N","u","m","P","y">>, <<"s","c","i","k","i","t","-","l","e","a","r","n">>>>],
    [keyword |-> <<"m","a","c","h","i","n","e"," ","l","e","a","r","n","i","n","g">>,
     skills |-> <<<<"P","y","t","h","o","n">>, <<"T","e","n","s","o","r","F","l","o","w">>, <<"P","y","T","o","r","c","h">>, <<"s","c","i","k","i","t","-","l","e","a","r","n">>, <<"P","a","n","d","a","s">>>>],
    [keyword |-> <<"m","l"," ","e","n","g","i","n","e","e","r">>,
     skills |-> <<<<"P","y","t","h","o","n">>, <<"T","e","n","s","o","r","F","l","o","w">>, <<"P","y","T","o","r","c","h">>, <<"D","o","c","k","e","r">>, <<"R","E","S","T"," ","A","P","I">>>>],
    [keyword |-> <<"a","n","d","r","o","i","d">>,
     skills |-> <<<<"A","n","d","r","o","i","d">>, <<"K","o","t","l","i","n">>, <<"J","a","v","a">>, <<"R","E","S","T"," ","A","P","I">>>>],
    [keyword |-> <<"i","o","s">>,
     skills |-> <<<<"i","O","S">>, <<"S","w","i","f","t">>, <<"R","E","S","T"," ","A","P","I">>>>],
    [keyword |-> <<"m","o","b","i","l","e">>,
     skills |-> <<<<"A","n","d","r","o","i","d">>, <<"i","O","S">>, <<"F","l","u","t","t","e","r">>, <<"R","e","a","c","t"," ","N","a","t","i","v","e">>>>],
    [keyword |-> <<"f","l","u","t","t","e","r">>,
     skills |-> <<<<"F","l","u","t","t","e","r">>, <<"A","n","d","r","o","i","d">>, <<"i","O","S">>, <<"R","E","S","T"," ","A","P","I">>>>],
    [keyword |-> <<"q","a">>,
     skills |-> <<<<"S","e","l","e","n","i","u","m">>, <<"J","I","R","A">>, <<"A","g","i","l","e">>, <<"P","y","t","h","o","n">>>>],
    [keyword |-> <<"q","u","a","l","i","t","y"," ","a","s","s","u","r","a","n","c","e">>,
     skills |-> <<<<"S","e","l","e","n","i","u","m">>, <<"J","I","R","A">>, <<"A","g","i","l","e">>>>],
    [keyword |-> <<"a","u","t","o","m","a","t","i","o","n">>,
     skills |-> <<<<"S","e","l","e","n","i","u","m">>, <<"P","y","t","h","o","n">>, <<"C","I","/","C","D">>>>],
    [keyword |-> <<"d","a","t","a","b","a","s","e">>,
     skills |-> <<<<"S","Q","L">>, <<"M","y","S","Q","L">>, <<"P","o","s","t","g","r","e","S","Q","L">>, <<"M","o","n","g","o","D","B">>, <<"O","r","a","c","l","e">>>>],
    [keyword |-> <<"u","i">>,
     skills |-> <<<<"F","i","g","m","a">>, <<"H","T","M","L","5">>, <<"C","S","S","3">>, <<"J","a","v","a","S","c","r","i","p","t">>, <<"R","e","a","c","t">>>>],
    [keyword |-> <<"u","x">>,
     skills |-> <<<<"F","i","g","m","a">>, <<"H","T","M","L","5">>, <<"C","S","S","3">>, <<"J","a","v","a","S","c","r","i","p","t">>>>],
    [keyword |-> <<"s","e","c","u","r","i","t","y">>,
     skills |-> <<<<"L","i","n","u","x">>, <<"P","y","t","h","o","n">>, <<"A","W","S">>>>],
    [keyword |-> <<"n","e","t","w","o","r","k">>,
     skills |-> <<<<"L","i","n","u","x">>>>]
  >>

SKILL_SYNONYMS ==
  {
    <<<<"j","s">>, <<"j","a","v","a","s","c","r","i","p","t">>>>,
    <<<<"r","e","a","c","t","j","s">>, <<"r","e","a","c","t">>>>,
    <<<<"n","o","d","e">>, <<"n","o","d","e",".","j","s">>>>,
    <<<<"n","o","d","e","j","s">>, <<"n","o","d","e",".","j","s">>>>,
    <<<<"e","x","p","r","e","s","s","j","s">>, <<"e","x","p","r","e","s","s">>>>,
    <<<<"p","o","s","t","g","r","e","s">>, <<"p","o","s","t","g","r","e","s","q","l">>>>,
    <<<<"m","o","n","g","o">>, <<"m","o","n","g","o","d","b">>>>,
    <<<<"k","8","s">>, <<"k","u","b","e","r","n","e","t","e","s">>>>,
    <<<<"m","l">>, <<"m","a","c","h","i","n","e"," ","l","e","a","r","n","i","n","g">>>>,
    <<<<"d","l">>, <<"d","e","e","p"," ","l","e","a","r","n","i","n","g">>>>,
    <<<<"t","f">>, <<"t","e","n","s","o","r","f","l","o","w">>>>,
    <<<<"s","p","r","i","n","g","b","o","o","t">>, <<"s","p","r","i","n","g"," ","b","o","o","t">>>>,
    <<<<"r","e","s","t","a","p","i">>, <<"r","e","s","t"," ","a","p","i">>>>,
    <<<<"r","e","s","t">>, <<"r","e","s","t"," ","a","p","i">>>>
  }

GENERIC_EMPLOYMENT_WORDS ==
  {
    <<"i","n","t","e","r","n">>,
    <<"i","n","t","e","r","n","s","h","i","p">>,
    <<"t","r","a","i","n","e","e">>,
    <<"e","n","t","r","y"," ","l","e","v","e","l">>,
    <<"e","n","t","r","y","-","l","e","v","e","l">>,
    <<"j","u","n","i","o","r">>,
    <<"a","s","s","o","c","i","a","t","e">>,
    <<"s","e","n","i","o","r">>,
    <<"l","e","a","d">>,
    <<"m","i","d">>,
    <<"m","i","d","-","l","e","v","e","l">>,
    <<"g","r","a","d","u","a","t","e">>,
    <<"u","n","d","e","r","g","r","a","d","u","a","t","e">>,
    <<"s","t","u","d","e","n","t">>,
    <<"f","r","e","s","h","e","r">>,
    <<"p","r","o","b","a","t","i","o","n","a","r","y">>,
    <<"f","u","l","l"," ","t","i","m","e">>,
    <<"f","u","l","l","-","t","i","m","e">>,
    <<"p","a","r","t"," ","t","i","m","e">>,
    <<"p","a","r","t","-","t","i","m","e">>,
    <<"c","o","n","t","r","a","c","t">>,
    <<"t","e","m","p","o","r","a","r","y">>,
    <<"p","e","r","m","a","n","e","n","t">>
  }

\* \b(senior|sr\.?|lead|manager|head|architect|principal|tech\s+lead|team\s+lead|director|vp|vice\s+president|cto|cio|chief)\b
RE_SENIOR ==
  <<WB, Grp(<<Alt(<<<<Lit(<<"s","e","n","i","o","r">>)>>,
        <<Lit(<<"s","r">>), Opt(<<Lit(<<".">>)>>)>>,
        <<Lit(<<"l","e","a","d">>)>>,
        <<Lit(<<"m","a","n","a","g","e","r">>)>>,
        <<Lit(<<"h","e","a","d">>)>>,
        <<Lit(<<"a","r","c","h","i","t","e","c","t">>)>>,
        <<Lit(<<"p","r","i","n","c","i","p","a","l">>)>>,
        <<Lit(<<"t","e","c","h">>), Plus({"SPACE"}), Lit(<<"l","e","a","d">>)>>,
        <<Lit(<<"t","e","a","m">>), Plus({"SPACE"}), Lit(<<"l","e","a","d">>)>>,
        <<Lit(<<"d","i","r","e","c","t","o","r">>)>>,
        <<Lit(<<"v","p">>)>>,
        <<Lit(<<"v","i","c","e">>), Plus({"SPACE"}), Lit(<<"p","r","e","s","i","d","e","n","t">>)>>,
        <<Lit(<<"c","t","o">>)>>,
        <<Lit(<<"c","i","o">>)>>,
        <<Lit(<<"c","h","i","e","f">>)>>>>)>>), WB>>

\* \b(intern(?:ship)?)\b
RE_INTERN ==
  <<WB, Grp(<<Lit(<<"i","n","t","e","r","n">>), Opt(<<Lit(<<"s","h","i","p">>)>>)>>), WB>>

\* \b(trainee|undergraduate|student|fresher|entry[\s\-]*level|junior|jr\.?|associate|graduate|probationary|it\s+graduate|software\s+graduate|it\s+trainee|software\s+trainee|it\s+associate|software\s+associate)\b
RE_JUNIOR ==
  <<WB, Grp(<<Alt(<<<<Lit(<<"t","r","a","i","n","e","e">>)>>,
        <<Lit(<<"u","n","d","e","r","g","r","a","d","u","a","t","e">>)>>,
        <<Lit(<<"s","t","u","d","e","n","t">>)>>,
        <<Lit(<<"f","r","e","s","h","e","r">>)>>,
        <<Lit(<<"e","n","t","r","y">>), Star({"SPACE","-"}), Lit(<<"l","e","v","e","l">>)>>,
        <<Lit(<<"j","u","n","i","o","r">>)>>,
        <<Lit(<<"j","r">>), Opt(<<Lit(<<".">>)>>)>>,
        <<Lit(<<"a","s","s","o","c","i","a","t","e">>)>>,
        <<Lit(<<"g","r","a","d","u","a","t","e">>)>>,
        <<Lit(<<"p","r","o","b","a","t","i","o","n","a","r","y">>)>>,
        <<Lit(<<"i","t">>), Plus({"SPACE"}), Lit(<<"g","r","a","d","u","a","t","e">>)>>,
        <<Lit(<<"s","o","f","t","w","a","r","e">>), Plus({"SPACE"}), Lit(<<"g","r","a","d","u","a","t","e">>)>>,
        <<Lit(<<"i","t">>), Plus({"SPACE"}), Lit(<<"t","r","a","i","n","e","e">>)>>,
        <<Lit(<<"s","o","f","t","w","a","r","e">>), Plus({"SPACE"}), Lit(<<"t","r","a","i","n","e","e">>)>>,
        <<Lit(<<"i","t">>), Plus({"SPACE"}), Lit(<<"a","s","s","o","c","i","a","t","e">>)>>,
        <<Lit(<<"s","o","f","t","w","a","r","e">>), Plus({"SPACE"}), Lit(<<"a","s","s","o","c","i","a","t","e">>)>>>>)>>), WB>>

\* (\d+)\+?\s*years?\b
RE_YEARS ==
  <<Grp(<<Plus({"DIGIT"})>>), Opt(<<Lit(<<"+">>)>>), Star({"SPACE"}), Lit(<<"y","e","a","r">>), Opt(<<Lit(<<"s">>)>>), WB>>

\* (?:(?:minimum|at\s+least|more\s+than|over|should\s+have|must\s+have|require[sd]?)?\s*(\d+)\s*(?:\+|to\s*\d+)?\s*years?\s*(?:of\s+)?(?:relevant\s+|working\s+|industry\s+)?experience|experience\s+of\s+(\d+)\s*\+?\s*years?|experience\s*[:\-]\s*(\d+))
RE_EXP_REQ ==
  <<Alt(<<<<Opt(<<Alt(<<<<Lit(<<"m","i","n","i","m","u","m">>)>>,
        <<Lit(<<"a","t">>), Plus({"SPACE"}), Lit(<<"l","e","a","s","t">>)>>,
        <<Lit(<<"m","o","r","e">>), Plus({"SPACE"}), Lit(<<"t","h","a","n">>)>>,
        <<Lit(<<"o","v","e","r">>)>>,
        <<Lit(<<"s","h","o","u","l","d">>), Plus({"SPACE"}), Lit(<<"h","a","v","e">>)>>,
        <<Lit(<<"m","u","s","t">>), Plus({"SPACE"}), Lit(<<"h","a","v","e">>)>>,
        <<Lit(<<"r","e","q","u","i","r","e">>), RepN({"s","d"}, 0, 1)>>>>)>>), Star({"SPACE"}), Grp(<<Plus({"DIGIT"})>>), Star({"SPACE"}), Opt(<<Alt(<<<<Lit(<<"+">>)>>,
        <<Lit(<<"t","o">>), Star({"SPACE"}), Plus({"DIGIT"})>>>>)>>), Star({"SPACE"}), Lit(<<"y","e","a","r">>), Opt(<<Lit(<<"s">>)>>), Star({"SPACE"}), Opt(<<Lit(<<"o","f">>), Plus({"SPACE"})>>), Opt(<<Alt(<<<<Lit(<<"r","e","l","e","v","a","n","t">>), Plus({"SPACE"})>>,
        <<Lit(<<"w","o","r","k","i","n","g">>), Plus({"SPACE"})>>,
        <<Lit(<<"i","n","d","u","s","t","r","y">>), Plus({"SPACE"})>>>>)>>), Lit(<<"e","x","p","e","r","i","e","n","c","e">>)>>,
        <<Lit(<<"e","x","p","e","r","i","e","n","c","e">>), Plus({"SPACE"}), Lit(<<"o","f">>), Plus({"SPACE"}), Grp(<<Plus({"DIGIT"})>>), Star({"SPACE"}), Opt(<<Lit(<<"+">>)>>), Star({"SPACE"}), Lit(<<"y","e","a","r">>), Opt(<<Lit(<<"s">>)>>)>>,
        <<Lit(<<"e","x","p","e","r","i","e","n","c","e">>), Star({"SPACE"}), One({":","-"}), Star({"SPACE"}), Grp(<<Plus({"DIGIT"})>>)>>>>)>>

(***************************************************************************)
(* Skill normalisation                                                     *)
(***************************************************************************)
\* _SKILL_SYNONYMS.get(t, t)
synonym_get(t) ==
  IF \E e \in SKILL_SYNONYMS : e[1] = t
    THEN (CHOOSE e \in SKILL_SYNONYMS : e[1] = t)[2]
    ELSE t

\* normalize_token with the table looked up before the token is lower-cased
normalize_token_lookup_first(t) == lower(synonym_get(re_sub_spaces(strip(t))))

normalize_token(t) == synonym_get(re_sub_spaces(lower(strip(t))))

\* _build_known_tech_skills()
KNOWN_TECH_SKILLS ==
  {normalize_token(TECH_KEYWORD_VARIANTS[n].label) : n \in DOMAIN TECH_KEYWORD_VARIANTS}

\* the label is found when one of its patterns matches
LabelFound(n, t) ==
  \E p \in DOMAIN TECH_KEYWORD_VARIANTS[n].patterns :
     re_search(TECH_KEYWORD_VARIANTS[n].patterns[p], t)

\* extract_skills_from_text that appends the label for every matching pattern
\* and does not drop the repeats
extract_skills_every_pattern(text) ==
  IF text = <<>> THEN <<>>
  ELSE
    LET t == <<" ">> \o re_sub_spaces(text) \o <<" ">>
        Hits(n) == {p \in DOMAIN TECH_KEYWORD_VARIANTS[n].patterns :
                      re_search(TECH_KEYWORD_VARIANTS[n].patterns[p], t)}
        F[n \in 0..Len(TECH_KEYWORD_VARIANTS)] ==
          IF n = 0 THEN <<>>
          ELSE F[n - 1] \o [h \in 1..Cardinality(Hits(n)) |->
                               normalize_token(TECH_KEYWORD_VARIANTS[n].label)]
    IN  F[Len(TECH_KEYWORD_VARIANTS)]

extract_skills_from_text(text) ==
  IF text = <<>> THEN <<>>
  ELSE
    LET t == <<" ">> \o re_sub_spaces(text) \o <<" ">>
        F[n \in 0..Len(TECH_KEYWORD_VARIANTS)] ==
          IF n = 0 THEN <<>>
          ELSE IF LabelFound(n, t)
                 THEN Append(F[n - 1], normalize_token(TECH_KEYWORD_VARIANTS[n].label))
                 ELSE F[n - 1]
    IN  dict_fromkeys(F[Len(TECH_KEYWORD_VARIANTS)])

\* the needle occurs in the text (Python's "in" on str)
Contains(needle, text) ==
  \E i \in 1..(Len(text) - Len(needle) + 1) :
     SubSeq(text, i, i + Len(needle) - 1) = needle

infer_skills_from_title(title) ==
  LET title_lower == lower(title)
      F[n \in 0..Len(TITLE_SKILL_MAP)] ==
        IF n = 0 THEN <<>>
        ELSE IF Contains(TITLE_SKILL_MAP[n].keyword, title_lower)
               THEN F[n - 1] \o TITLE_SKILL_MAP[n].skills
               ELSE F[n - 1]
      inferred == F[Len(TITLE_SKILL_MAP)]
  IN  dict_fromkeys([i \in DOMAIN inferred |-> normalize_token(inferred[i])])

\* the bullet character U+2022
BULLET == "BULLET"

\* the characters of the class [,|/•\n] of clean_skill_list
SKILL_SEPARATORS == {",", "|", "/", BULLET, "\n"}

\* re.split(r"[,|/•\n]+", s): the parts between the runs of separators
re_split_skills(s) ==
  LET F[n \in 0..Len(s)] ==
        IF n = 0 THEN << <<>> >>
        ELSE IF s[n] \in SKILL_SEPARATORS
               THEN IF n > 1 /\ s[n - 1] \in SKILL_SEPARATORS
                      THEN F[n - 1]
                      ELSE Append(F[n - 1], <<>>)
               ELSE [F[n - 1] EXCEPT ![Len(F[n - 1])] = Append(@, s[n])]
  IN  F[Len(s)]

\* clean_skill_list without the test against KNOWN_TECH_SKILLS
clean_skill_list_any_token(skills) ==
  LET normalized == [i \in DOMAIN skills |-> normalize_token(skills[i])]
      Keep(ns) == Len(ns) >= 2 /\ ns \notin GENERIC_EMPLOYMENT_WORDS
  IN  dict_fromkeys(SelectSeq(normalized, Keep))

\* clean_skill_list for a list argument
clean_skill_list(skills) ==
  LET normalized == [i \in DOMAIN skills |-> normalize_token(skills[i])]
      Keep(ns) ==
        /\ Len(ns) >= 2
        /\ ns \notin GENERIC_EMPLOYMENT_WORDS
        /\ ns \in KNOWN_TECH_SKILLS
  IN  dict_fromkeys(SelectSeq(normalized, Keep))

\* clean_skill_list for a str argument: split, strip, drop the empty parts,
\* then clean the list
clean_skill_string(skills) ==
  LET parts == re_split_skills(skills)
      stripped == [i \in DOMAIN parts |-> strip(parts[i])]
      NonEmpty(part) == part # <<>>
  IN  IF skills = <<>> THEN <<>> ELSE clean_skill_list(SelectSeq(stripped, NonEmpty))

(***************************************************************************)
(* CV seniority detection                                                  *)
(***************************************************************************)
\* pattern.finditer(t): the matches from left to right, none overlapping
\* another, each from its start to the end of the match
RECURSIVE finditer(_, _, _)
finditer(p, t, pos) ==
  LET starts == {i \in pos..(Len(t) + 1) : MatchEnds(p, 1, t, i) # {}}
  IN  IF starts = {} THEN <<>>
      ELSE LET i == SeqMin(starts)
               e == SeqMax(MatchEnds(p, 1, t, i))
           IN  <<[start |-> i, end |-> e]>> \o finditer(p, t, IF e > i THEN e ELSE e + 1)

\* int() of one digit
DigitValue(c) == CHOOSE n \in 0..9 : <<"0","1","2","3","4","5","6","7","8","9">>[n + 1] = c

\* int(m.group(1)) for a match of (\d+) that starts at position i: the
\* number written by the run of digits at i
RECURSIVE int_group(_, _, _)
int_group(t, i, acc) ==
  IF i <= Len(t) /\ t[i] \in DIGITS
    THEN int_group(t, i + 1, 10 * acc + DigitValue(t[i]))
    ELSE acc

estimate_cv_years(cv) ==
  LET ms == finditer(RE_YEARS, cv, 1)
      years == {int_group(cv, ms[n].start, 0) : n \in DOMAIN ms}
  IN  IF years # {} THEN SeqMax(years) ELSE 0

\* estimate_cv_level with the year-based heuristic applied before the keywords
estimate_cv_level_years_first(cv) ==
  IF cv = <<>> THEN "intern_junior"
  ELSE IF estimate_cv_years(cv) >= 5 THEN "senior"
  ELSE IF estimate_cv_years(cv) >= 2 THEN "mid"
  ELSE IF re_search(RE_INTERN, cv) THEN "intern_junior"
  ELSE IF re_search(RE_JUNIOR, cv) THEN "intern_junior"
  ELSE IF re_search(RE_SENIOR, cv) THEN "senior"
  ELSE "intern_junior"

estimate_cv_level(cv) ==
  IF cv = <<>> THEN "intern_junior"
  ELSE IF re_search(RE_INTERN, cv) THEN "intern_junior"
  ELSE IF re_search(RE_JUNIOR, cv) THEN "intern_junior"
  ELSE IF re_search(RE_SENIOR, cv) THEN "senior"
  ELSE IF estimate_cv_years(cv) >= 5 THEN "senior"
  ELSE IF estimate_cv_years(cv) >= 2 THEN "mid"
  ELSE "intern_junior"

(***************************************************************************)
(* Job seniority detection and filtering                                   *)
(***************************************************************************)
\* _job_min_years: _RE_EXP_REQ.search finds the leftmost match; the one
\* group that took part in it is the first run of digits of the match
\* (every alternative has only words and whitespace before its group);
\* -1 stands for None
job_min_years(t) ==
  LET starts == {i \in 1..(Len(t) + 1) : MatchEnds(RE_EXP_REQ, 1, t, i) # {}}
  IN  IF starts = {} THEN -1
      ELSE int_group(t, SeqMin({i \in SeqMin(starts)..Len(t) : t[i] \in DIGITS}), 0)

classify_job_level_title_first(title, desc) ==
  LET combined == title \o <<" ">> \o desc
      yrs == job_min_years(combined)
  IN  IF re_search(RE_INTERN, combined) \/ re_search(RE_JUNIOR, combined) THEN "intern_junior"
      ELSE IF re_search(RE_SENIOR, combined) THEN "senior"
      ELSE IF yrs >= 5 THEN "senior"
      ELSE IF yrs >= 2 THEN "mid"
      ELSE "intern_junior"

classify_job_level(title, desc) ==
  LET combined == title \o <<" ">> \o desc
      yrs == job_min_years(combined)
  IN  IF re_search(RE_INTERN, combined) \/ re_search(RE_JUNIOR, combined) THEN "intern_junior"
      ELSE IF yrs >= 5 THEN "senior"
      ELSE IF yrs >= 2 THEN "mid"
      ELSE IF re_search(RE_SENIOR, combined) THEN "senior"
      ELSE "intern_junior"

SENIORITY_ALLOWED_all_levels ==
  [intern_junior |-> {"intern_junior", "mid", "senior"},
   mid           |-> {"intern_junior", "mid", "senior"},
   senior        |-> {"intern_junior", "mid", "senior"}]

SENIORITY_ALLOWED ==
  [intern_junior |-> {"intern_junior", "mid"},
   mid           |-> {"intern_junior", "mid", "senior"},
   senior        |-> {"mid", "senior"}]

(***************************************************************************)
(* Job data                                                                *)
(***************************************************************************)
\* please refer (the )?(vacancy|advert|advertisement)
GENERIC_DESC_RE ==
  <<Lit(<<"p","l","e","a","s","e"," ","r","e","f","e","r"," ">>), Opt(<<Grp(<<Lit(<<"t","h","e"," ">>)>>)>>), Grp(<<Alt(<<<<Lit(<<"v","a","c","a","n","c","y">>)>>, <<Lit(<<"a","d","v","e","r","t">>)>>, <<Lit(<<"a","d","v","e","r","t","i","s","e","m","e","n","t">>)>>>>)>>)>>

clean_desc(d) ==
  LET s == strip(d)
  IN  IF s = <<>> \/ (re_search(GENERIC_DESC_RE, s) /\ Len(s) < 120) THEN <<>> ELSE s

\* the fields build_combined_fields derives for one row (job_text, which
\* only the TF-IDF vectorizer reads, is left to the vectorizer) and the
\* job_level apply_seniority_handling adds to it
combined_fields(row) ==
  LET desc_clean == clean_desc(row.description)
      combined   == row.title \o <<" ">> \o desc_clean \o <<" ">> \o row.raw_skills
      detected   == extract_skills_from_text(combined)
      inferred   == infer_skills_from_title(row.title)
      filled     == IF Len(detected) < 3 THEN dict_fromkeys(detected \o inferred) ELSE detected
  IN  [title |-> row.title, company |-> row.company, location |-> row.location,
       closing_date |-> row.closing_date,
       desc_clean |-> desc_clean,
       inferred_skills |-> inferred,
       job_skill_list |-> clean_skill_list(filled),
       job_level |-> classify_job_level(row.title, IF desc_clean # <<>> THEN desc_clean
                                                   ELSE row.description)]

\* filter_active_jobs.  A closing date is kept as the format it is written
\* in and whether it is today or later: when any date of the column parses
\* as "%a %b %d %Y" the column is read in that format only
filter_active_jobs(rows) ==
  LET topjobs == \E i \in DOMAIN rows : rows[i].closing_date.format = "topjobs"
      Active(r) ==
        /\ r.closing_date.format = (IF topjobs THEN "topjobs" ELSE "other")
        /\ r.closing_date.today_or_later
  IN  SelectSeq(rows, Active)

\* the frame gets its job_level column unless it has one
apply_seniority_handling_strict_keeps_all(rows, level, mode) ==
  LET with_level(r) ==
        IF "job_level" \in DOMAIN r THEN r
        ELSE [job_level |-> classify_job_level(r.title, IF r.desc_clean # <<>> THEN r.desc_clean
                                                       ELSE r.description)] @@ r
      leveled == [i \in DOMAIN rows |-> with_level(rows[i])]
  IN  IF mode = "loose"
        THEN SelectSeq(leveled, LAMBDA r : r.job_level \in SENIORITY_ALLOWED[level])
        ELSE SelectSeq(leveled, LAMBDA r : TRUE)

apply_seniority_handling(rows, level, mode) ==
  LET with_level(r) ==
        IF "job_level" \in DOMAIN r THEN r
        ELSE [job_level |-> classify_job_level(r.title, IF r.desc_clean # <<>> THEN r.desc_clean
                                                       ELSE r.description)] @@ r
      leveled == [i \in DOMAIN rows |-> with_level(rows[i])]
  IN  IF mode = "loose"
        THEN SelectSeq(leveled, LAMBDA r : r.job_level \in SENIORITY_ALLOWED[level])
        ELSE SelectSeq(leveled, LAMBDA r : r.job_level = level)

(***************************************************************************)
(* User skills from the CV                                                 *)
(***************************************************************************)
build_user_skills_from_cv(res, text) ==
  LET kw == res.keywords.found_keywords
  IN  clean_skill_list([i \in DOMAIN kw |-> normalize_token(kw[i])]
                       \o extract_skills_from_text(text)
                       \o extract_skills_from_text(res.github.message))

(***************************************************************************)
(* CV check functions.  A score is kept in tenths of a point (100 = 10.0). *)
(* Each function reads the facts its code extracts from the document;      *)
(* f.raise says that the code inside its try block raises.                 *)
(***************************************************************************)
Tenths(points) == 10 * points

Result(status, points) == [status |-> status, score |-> Tenths(points)]

Min2(a, b) == IF a < b THEN a ELSE b

Max2(a, b) == IF a > b THEN a ELSE b

check_cv_page_count(f) ==
  IF f.raise THEN Result("error", 0)
  ELSE IF f.page_count = 1 THEN Result("success", 10)
  ELSE IF f.page_count = 2 THEN Result("success", 8)
  ELSE Result("warning", 4)

check_gpa_in_cv(f) ==
  IF f.raise THEN Result("error", 0)
  ELSE IF f.found_value THEN Result("success", 10)
  ELSE IF f.gpa_keyword THEN Result("warning", 6)
  ELSE Result("warning", 5)

check_professional_email(f) ==
  IF f.raise THEN Result("error", 0)
  ELSE IF ~f.emails THEN Result("error", 0)
  ELSE LET risk_points == (IF f.slang THEN 2 ELSE 0)
                          + (IF f.long_number THEN 1 ELSE 0)
                          + (IF f.many_symbols THEN 1 ELSE 0)
       IN  IF risk_points = 0 THEN Result("success", 10)
           ELSE IF risk_points <= 2 THEN Result("success", 8)
           ELSE Result("success", 6)

check_photo_presence(f) ==
  IF f.raise THEN Result("error", 0)
  ELSE IF f.has_image THEN Result("success", 10)
  ELSE Result("info", 7)

check_ol_al_presence(f) ==
  IF f.raise THEN Result("error", 0)
  ELSE IF ~(f.has_ol \/ f.has_al) THEN Result("success", 10)
  ELSE Result("warning", 5)

check_formatting_quality(f) ==
  IF f.raise THEN Result("error", 5)
  ELSE LET issues == (IF f.font_sizes < 2 \/ f.font_sizes > 6 THEN 1 ELSE 0)
                     + (IF f.small_margin THEN 1 ELSE 0)
           score == Max2(0, Min2(10, 10 - issues * 2))
       IN  IF issues > 0 THEN Result("warning", score)
           ELSE Result("success", 10)

validate_technical_keywords(f) ==
  IF f.raise THEN Result("error", 0)
  ELSE IF f.kw_count >= 10 THEN Result("success", 10)
  ELSE IF f.kw_count >= 5 THEN Result("success", 7)
  ELSE IF f.kw_count >= 3 THEN Result("warning", 5)
  ELSE Result("warning", 3)

validate_github_links(f) ==
  IF f.raise THEN Result("error", 0)
  ELSE IF ~f.links THEN Result("warning", 3)
  ELSE IF f.valid_profile = 0 /\ f.valid_repo = 0 THEN Result("warning", 3)
  ELSE LET base  == IF f.valid_profile > 0 THEN 6 ELSE 0
           boost == IF f.valid_repo >= 3 THEN 4
                    ELSE IF f.valid_repo = 2 THEN 3
                    ELSE IF f.valid_repo = 1 THEN 2 ELSE 0
           score == Min2(10, base + boost)
       IN  Result(IF score >= 7 THEN "success" ELSE "warning", score)

find_specialization(f) ==
  IF f.raise THEN Result("error", 0)
  ELSE IF f.keyword_in_text THEN Result("success", 10)
  ELSE Result("warning", 5)

check_skills_separation(f) ==
  IF f.raise THEN Result("error", 0)
  ELSE IF f.soft_skills /\ f.technical_skills THEN Result("success", 10)
  ELSE IF f.technical_skills THEN Result("warning", 6)
  ELSE IF f.soft_skills THEN Result("warning", 5)
  ELSE Result("error", 2)

check_contact_information(f) ==
  IF f.raise THEN Result("error", 0)
  ELSE LET score == (IF f.has_phone THEN 3 ELSE 0) + (IF f.has_email THEN 3 ELSE 0)
                    + (IF f.has_linkedin THEN 2 ELSE 0) + (IF f.has_location THEN 2 ELSE 0)
       IN  IF score >= 8 THEN Result("success", 10)
           ELSE IF score >= 6 THEN Result("success", 8)
           ELSE Result("warning", Max2(4, score))

check_action_verbs(f) ==
  IF f.raise THEN Result("error", 0)
  ELSE IF f.n >= 8 THEN Result("success", 10)
  ELSE IF f.n >= 5 THEN Result("success", 7)
  ELSE IF f.n >= 3 THEN Result("warning", 5)
  ELSE Result("warning", 3)

check_quantifiable_achievements(f) ==
  IF f.raise THEN Result("error", 0)
  ELSE IF f.n >= 5 THEN Result("success", 10)
  ELSE IF f.n >= 3 THEN Result("success", 7)
  ELSE IF f.n >= 1 THEN Result("warning", 5)
  ELSE Result("warning", 2)

check_professional_summary(f) ==
  IF f.raise THEN Result("error", 0)
  ELSE IF f.blocks
    THEN IF f.has_top THEN Result("success", 10)
         ELSE IF f.has_summary THEN Result("success", 8)
         ELSE Result("info", 6)
  ELSE Result("warning", 5)

\* number of answers among the first `total` whose "yes" is True
RECURSIVE passed_count(_, _)
passed_count(answers, total) ==
  IF answers = <<>> \/ total = 0 THEN 0
  ELSE (IF Head(answers) THEN 1 ELSE 0) + passed_count(Tail(answers), total - 1)

\* round(passed / total * 10, 1) in tenths; passed * 100 / 9 is never half
\* way between two tenths
llm_score(passed, total) == (passed * 200 + total) \div (2 * total)

\* validate_with_llm counting every answer of the reply, not answers[:total]
validate_with_llm_all_answers(f) ==
  IF f.raise THEN [status |-> "error", score |-> 0, passed |-> 0, total |-> 9]
  ELSE IF ~f.api_key THEN [status |-> "error", score |-> 0, passed |-> 0, total |-> 9]
  ELSE LET total  == 9
           passed == passed_count(f.answers, Len(f.answers))
       IN  [status |-> "success", score |-> llm_score(passed, total),
            passed |-> passed, total |-> total]

\* f.answers: the "yes" flags of data.get("answers", []), <<>> for a reply
\* that is empty or not the expected JSON
validate_with_llm(f) ==
  IF f.raise THEN [status |-> "error", score |-> 0, passed |-> 0, total |-> 9]
  ELSE IF ~f.api_key THEN [status |-> "error", score |-> 0, passed |-> 0, total |-> 9]
  ELSE LET total  == 9
           passed == passed_count(f.answers, total)
       IN  [status |-> "success", score |-> llm_score(passed, total),
            passed |-> passed, total |-> total]

apply_blind_mode(res, blind) ==
  IF ~blind THEN res
  ELSE LET photo_done ==
             IF "photo" \in DOMAIN res
               THEN [res EXCEPT !["photo"] = [@ EXCEPT !.score = Tenths(10), !.status = "info"]]
               ELSE res
       IN  IF "ol_al" \in DOMAIN photo_done
             THEN [photo_done EXCEPT !["ol_al"] = [@ EXCEPT !.score = Max2(@, Tenths(7))]]
             ELSE photo_done

(***************************************************************************)
(* Overall score.  Weights are kept in hundredths (5 = 0.05).              *)
(***************************************************************************)
WEIGHTS ==
  << <<"page_count", 5>>, <<"gpa", 5>>, <<"professional_email", 8>>,
     <<"photo", 4>>, <<"ol_al", 5>>, <<"formatting", 6>>,
     <<"specialization", 4>>, <<"github", 8>>, <<"skills", 8>>,
     <<"keywords", 10>>, <<"contact", 6>>, <<"action_verbs", 7>>,
     <<"achievements", 7>>, <<"summary", 5>>, <<"llm", 10>> >>

\* the keys of the weight table
Criteria == {WEIGHTS[i][1] : i \in DOMAIN WEIGHTS}

\* the weights calculate_overall_score uses; llm_std is in tenths
weights_for(std) ==
  [i \in DOMAIN WEIGHTS |->
     IF std >= 20 /\ WEIGHTS[i][1] = "llm" THEN <<"llm", 5>> ELSE WEIGHTS[i]]

\* res.get(key, {}).get("score", 0)
get_score(res, key) == IF key \in DOMAIN res THEN res[key].score ELSE 0

\* total_weight after the first n items of the table
RECURSIVE total_weight_of(_, _)
total_weight_of(w, n) ==
  IF n = 0 THEN 0 ELSE total_weight_of(w, n - 1) + w[n][2]

\* total_score after the first n items of the table
RECURSIVE total_score_of(_, _, _)
total_score_of(w, res, n) ==
  IF n = 0 THEN 0
  ELSE total_score_of(w, res, n - 1) + get_score(res, w[n][1]) * w[n][2]

\* the values of round(n / d) the floating-point evaluation can give: the
\* nearest integer, and either neighbour when n / d lies half way
rounded(n, d) ==
  LET q == n \div d
      r == n % d
  IN  IF 2 * r < d THEN {q} ELSE IF 2 * r > d THEN {q + 1} ELSE {q, q + 1}

\* the outcomes of the float comparison  n / d >= tenths : it is decided by
\* the accumulated rounding error when the exact quotient equals the bound
at_least(n, d, tenths) ==
  IF n > tenths * d THEN {TRUE} ELSE IF n < tenths * d THEN {FALSE} ELSE {TRUE, FALSE}

grades(n, d) ==
  { IF e THEN "Excellent" ELSE IF g THEN "Good" ELSE IF f THEN "Fair" ELSE "Needs Improvement" :
      <<e, g, f>> \in at_least(n, d, 85) \X at_least(n, d, 70) \X at_least(n, d, 55) }

\* the set of values calculate_overall_score can return
calculate_overall_score(res, std) ==
  LET weights      == weights_for(std)
      total_score  == total_score_of(weights, res, Len(weights))
      total_weight == total_weight_of(weights, Len(weights))
  IN  { [status |-> IF grade \in {"Excellent", "Good"} THEN "success" ELSE "warning",
         score |-> score, grade |-> grade, llm_weight_adjusted |-> std >= 20] :
          <<grade, score>> \in grades(total_score, total_weight)
                                \X rounded(total_score, total_weight) }

(***************************************************************************)
(* Dimension scoring                                                       *)
(***************************************************************************)
\* to100(_weighted_avg_10(items)) for items of <<criterion, weight>>
RECURSIVE items_total(_, _)
items_total(res, items) ==
  IF items = <<>> THEN 0
  ELSE get_score(res, Head(items)[1]) * Head(items)[2] + items_total(res, Tail(items))

RECURSIVE items_wsum(_)
items_wsum(items) ==
  IF items = <<>> THEN 0 ELSE Head(items)[2] + items_wsum(Tail(items))

to100(res, items) ==
  { Max2(0, Min2(100, v)) : v \in rounded(items_total(res, items), items_wsum(items)) }

calculate_dimension_scores(res) ==
  { [impact |-> i, brevity |-> b, style |-> st, skills |-> sk] :
      <<i, b, st, sk>> \in
        to100(res, << <<"achievements", 45>>, <<"action_verbs", 35>>, <<"summary", 20>> >>)
        \X to100(res, << <<"page_count", 75>>, <<"ol_al", 25>> >>)
        \X to100(res, << <<"formatting", 70>>, <<"professional_email", 20>>, <<"photo", 10>> >>)
        \X to100(res, << <<"skills", 40>>, <<"keywords", 40>>, <<"github", 20>> >>) }

(***************************************************************************)
(* Main recommender                                                        *)
(***************************************************************************)
\* the characters of skill names in code point order
CODE_POINT_ORDER ==
  <<" ", "#", "+", "-", ".", "/", "0", "1", "2", "3", "4", "5", "6", "7", "8", "9">> \o ASCII_LOWER

code_point(c) == CHOOSE i \in DOMAIN CODE_POINT_ORDER : CODE_POINT_ORDER[i] = c

\* a < b on str
RECURSIVE str_less(_, _)
str_less(a, b) ==
  IF b = <<>> THEN FALSE
  ELSE IF a = <<>> THEN TRUE
  ELSE IF Head(a) = Head(b) THEN str_less(Tail(a), Tail(b))
  ELSE code_point(Head(a)) < code_point(Head(b))

\* sorted(S) for a set of str
RECURSIVE sorted(_)
sorted(S) ==
  IF S = {} THEN <<>>
  ELSE LET first == CHOOSE x \in S : \A y \in S \ {x} : str_less(x, y)
       IN  <<first>> \o sorted(S \ {first})

\* xs[:n]
head(xs, n) ==
  IF n >= 0 THEN SubSeq(xs, 1, Min2(n, Len(xs)))
  ELSE SubSeq(xs, 1, Max2(0, Len(xs) + n))

\* final_score of a row as the fraction n / d of a thousandth:
\* 0.80 * sim + 0.20 * overlap, sim in hundredths
final_score(row, cv_set, sims) ==
  LET js == Elems(clean_skill_list(row.job_skill_list))
      sim == sims[row.index]
  IN  IF js = {} THEN [n |-> 8 * sim, d |-> 1]
      ELSE LET d == Max2(Cardinality(js), Cardinality(cv_set))
           IN  [n |-> 8 * sim * d + 200 * Cardinality(js \cap cv_set), d |-> d]

\* title, company and final_score of the rows of the frame
final_scores(rows, cv_set, sims) ==
  LET F[n \in 0..Len(rows)] ==
        IF n = 0 THEN <<>>
        ELSE Append(F[n - 1], [title |-> rows[n].title, company |-> rows[n].company,
                               final_score |-> final_score(rows[n], cv_set, sims)])
  IN  F[Len(rows)]

\* the orders sort_values("final_score", ascending=False) can leave the rows
\* in: quicksort does not fix the order of rows with equal scores
sort_values(rows, cv_set, sims) ==
  LET n == Len(rows)
      score(r) == final_score(r, cv_set, sims)
      orders == {p \in [1..n -> 1..n] :
                   /\ \A i, j \in 1..n : i # j => p[i] # p[j]
                   /\ \A i, j \in 1..n :
                        i < j => score(rows[p[i]]).n * score(rows[p[j]]).d
                                   >= score(rows[p[j]]).n * score(rows[p[i]]).d}
  IN  {[i \in 1..n |-> rows[p[i]]] : p \in orders}

\* drop_duplicates(subset=["title", "company"], keep="first")
drop_duplicates_keep_last(rows) ==
  LET last == {i \in DOMAIN rows :
                 \A j \in (i + 1)..Len(rows) : <<rows[j].title, rows[j].company>>
                                                 # <<rows[i].title, rows[i].company>>}
      F[n \in 0..Len(rows)] ==
        IF n = 0 THEN <<>>
        ELSE IF n \in last THEN Append(F[n - 1], rows[n]) ELSE F[n - 1]
  IN  F[Len(rows)]

drop_duplicates(rows) ==
  LET first == {i \in DOMAIN rows :
                  \A j \in 1..(i - 1) : <<rows[j].title, rows[j].company>>
                                          # <<rows[i].title, rows[i].company>>}
      F[n \in 0..Len(rows)] ==
        IF n = 0 THEN <<>>
        ELSE IF n \in first THEN Append(F[n - 1], rows[n]) ELSE F[n - 1]
  IN  F[Len(rows)]

\* the dicts the loop over the ranked rows can append for a row;
\* match_percentage is in tenths of a percent
job_entries_all_skills(row, cv_set, level, sims) ==
  LET job_set == Elems(clean_skill_list(row.job_skill_list))
      score == final_score(row, cv_set, sims)
  IN  { [title |-> row.title, company |-> row.company, location |-> row.location,
         match_percentage |-> Min2(1000, Max2(0, pct)),
         match_level |-> IF pct >= 700 THEN "Excellent"
                         ELSE IF pct >= 500 THEN "Good" ELSE "Potential",
         cv_level_used |-> level,
         matched_skills |-> sorted(job_set \cap cv_set),
         missing_skills |-> sorted(job_set \ cv_set)] :
          pct \in rounded(score.n, score.d) }

job_entries(row, cv_set, level, sims) ==
  LET job_set == Elems(clean_skill_list(row.job_skill_list))
      score == final_score(row, cv_set, sims)
  IN  { [title |-> row.title, company |-> row.company, location |-> row.location,
         match_percentage |-> Min2(1000, Max2(0, pct)),
         match_level |-> IF pct >= 700 THEN "Excellent"
                         ELSE IF pct >= 500 THEN "Good" ELSE "Potential",
         cv_level_used |-> level,
         matched_skills |-> head(sorted(job_set \cap cv_set), 8),
         missing_skills |-> head(sorted(job_set \ cv_set), 8)] :
          pct \in rounded(score.n, score.d) }

RECURSIVE job_lists(_, _, _, _)
job_lists(rows, cv_set, level, sims) ==
  IF rows = <<>> THEN {<<>>}
  ELSE { <<entry>> \o rest :
           <<entry, rest>> \in job_entries(Head(rows), cv_set, level, sims)
                               \X job_lists(Tail(rows), cv_set, level, sims) }

\* get_job_recommendations once load_job_data has returned loaded (None
\* stands for a dataset that cannot be read) and build_user_skills_from_cv
\* and estimate_cv_level have returned skills and level; sims is the cosine
\* similarity the vectorizer gives each row of the dataset, in hundredths.
\* at names the return statement reached.
recommendations_without_empty_check(loaded, skills, level, location_filter, n, mode, sims) ==
  LET nothing(at) == {[at |-> at, jobs |-> <<>>, scored |-> <<>>]}
      in_location == IF location_filter # <<>> /\ location_filter # <<"A", "l", "l">>
                       THEN SelectSeq(loaded, LAMBDA r : Contains(lower(location_filter), lower(r.location)))
                       ELSE loaded
      active   == filter_active_jobs(in_location)
      kept     == apply_seniority_handling(active, level, mode)
      \* reset_index(drop=True)
      at_level == [i \in DOMAIN kept |-> [kept[i] EXCEPT !.index = i]]
      cv_set   == Elems(skills)
  IN  IF skills = <<>> THEN nothing("no_user_skills")
      ELSE IF in_location = <<>> THEN nothing("no_job_in_location")
      ELSE IF active = <<>> THEN nothing("no_active_job")
      ELSE IF at_level = <<>> THEN nothing("no_job_at_level")
      ELSE UNION { { [at |-> "ranked", jobs |-> js, scored |-> final_scores(at_level, cv_set, sims)] :
                       js \in job_lists(head(drop_duplicates(ranked), n), cv_set, level, sims) } :
                   ranked \in sort_values(at_level, cv_set, sims) }

recommendations(loaded, skills, level, location_filter, n, mode, sims) ==
  LET nothing(at) == {[at |-> at, jobs |-> <<>>, scored |-> <<>>]}
      in_location == IF location_filter # <<>> /\ location_filter # <<"A", "l", "l">>
                       THEN SelectSeq(loaded, LAMBDA r : Contains(lower(location_filter), lower(r.location)))
                       ELSE loaded
      active   == filter_active_jobs(in_location)
      kept     == apply_seniority_handling(active, level, mode)
      \* reset_index(drop=True)
      at_level == [i \in DOMAIN kept |-> [kept[i] EXCEPT !.index = i]]
      cv_set   == Elems(skills)
  IN  IF loaded = <<>> THEN nothing("no_data")
      ELSE IF skills = <<>> THEN nothing("no_user_skills")
      ELSE IF in_location = <<>> THEN nothing("no_job_in_location")
      ELSE IF active = <<>> THEN nothing("no_active_job")
      ELSE IF at_level = <<>> THEN nothing("no_job_at_level")
      ELSE UNION { { [at |-> "ranked", jobs |-> js, scored |-> final_scores(at_level, cv_set, sims)] :
                       js \in job_lists(head(drop_duplicates(ranked), n), cv_set, level, sims) } :
                   ranked \in sort_values(at_level, cv_set, sims) }

(***************************************************************************)
(* check_skills_separation of Task 06: a scan over the lines of the CV     *)
(***************************************************************************)
\* TECH_KEYWORD_VARIANTS of Task 06
TECH_KEYWORD_VARIANTS_06 ==
  <<
    \* Java: \bjava\b(?!\s*script)
    [label |-> <<"J","a","v","a">>,
     patterns |-> <<<<WB, Lit(<<"j","a","v","a">>), WB, Nla(<<Star({"SPACE"}), Lit(<<"s","c","r","i","p","t">>)>>)>>>>],
    \* Python: \bpython\b
    [label |-> <<"P","y","t","h","o","n">>,
     patterns |-> <<<<WB, Lit(<<"p","y","t","h","o","n">>), WB>>>>],
    \* JavaScript: \bjavascript\b  \bjs\b
    [label |-> <<"J","a","v","a","S","c","r","i","p","t">>,
     patterns |-> <<<<WB, Lit(<<"j","a","v","a","s","c","r","i","p","t">>), WB>>,
                    <<WB, Lit(<<"j","s">>), WB>>>>],
    \* C#: \bc\s*#\b  \bcsharp\b  \bc\s*sharp\b
    [label |-> <<"C","#">>,
     patterns |-> <<<<WB, Lit(<<"c">>), Star({"SPACE"}), Lit(<<"#">>), WB>>,
                    <<WB, Lit(<<"c","s","h","a","r","p">>), WB>>,
                    <<WB, Lit(<<"c">>), Star({"SPACE"}), Lit(<<"s","h","a","r","p">>), WB>>>>],
    \* C++: \bc\+\+\b
    [label |-> <<"C","+","+">>,
     patterns |-> <<<<WB, Lit(<<"c","+","+">>), WB>>>>],
    \* MySQL: \bmysql\b
    [label |-> <<"M","y","S","Q","L">>,
     patterns |-> <<<<WB, Lit(<<"m","y","s","q","l">>), WB>>>>],
    \* PostgreSQL: \bpostgres(?:ql)?\b
    [label |-> <<"P","o","s","t","g","r","e","S","Q","L">>,
     patterns |-> <<<<WB, Lit(<<"p","o","s","t","g","r","e","s">>), Opt(<<Lit(<<"q","l">>)>>), WB>>>>],
    \* MongoDB: \bmongo(?:db)?\b
    [label |-> <<"M","o","n","g","o","D","B">>,
     patterns |-> <<<<WB, Lit(<<"m","o","n","g","o">>), Opt(<<Lit(<<"d","b">>)>>), WB>>>>],
    \* Oracle: \boracle\b
    [label |-> <<"O","r","a","c","l","e">>,
     patterns |-> <<<<WB, Lit(<<"o","r","a","c","l","e">>), WB>>>>],
    \* Git: \bgit\b
    [label |-> <<"G","i","t">>,
     patterns |-> <<<<WB, Lit(<<"g","i","t">>), WB>>>>],
    \* GitHub: \bgithub\b
    [label |-> <<"G","i","t","H","u","b">>,
     patterns |-> <<<<WB, Lit(<<"g","i","t","h","u","b">>), WB>>>>],
    \* GitLab: \bgitlab\b
    [label |-> <<"G","i","t","L","a","b">>,
     patterns |-> <<<<WB, Lit(<<"g","i","t","l","a","b">>), WB>>>>],
    \* HTML5: \bhtml5\b  \bhtml\b
    [label |-> <<"H","T","M","L","5">>,
     patterns |-> <<<<WB, Lit(<<"h","t","m","l","5">>), WB>>,
                    <<WB, Lit(<<"h","t","m","l">>), WB>>>>],
    \* CSS3: \bcss3\b  \bcss\b
    [label |-> <<"C","S","S","3">>,
     patterns |-> <<<<WB, Lit(<<"c","s","s","3">>), WB>>,
                    <<WB, Lit(<<"c","s","s">>), WB>>>>],
    \* React: \breact(?:\.js|js)?\b
    [label |-> <<"R","e","a","c","t">>,
     patterns |-> <<<<WB, Lit(<<"r","e","a","c","t">>), Opt(<<Alt(<<<<Lit(<<".","j","s">>)>>, <<Lit(<<"j","s">>)>>>>)>>), WB>>>>],
    \* Angular: \bangular\b  \bangularjs\b
    [label |-> <<"A","n","g","u","l","a","r">>,
     patterns |-> <<<<WB, Lit(<<"a","n","g","u","l","a","r">>), WB>>,
                    <<WB, Lit(<<"a","n","g","u","l","a","r","j","s">>), WB>>>>],
    \* Vue.js: \bvue(?:\.js|js)?\b
    [label |-> <<"V","u","e",".","j","s">>,
     patterns |-> <<<<WB, Lit(<<"v","u","e">>), Opt(<<Alt(<<<<Lit(<<".","j","s">>)>>, <<Lit(<<"j","s">>)>>>>)>>), WB>>>>],
    \* Node.js: \bnode(?:\.js|js)?\b
    [label |-> <<"N","o","d","e",".","j","s">>,
     patterns |-> <<<<WB, Lit(<<"n","o","d","e">>), Opt(<<Alt(<<<<Lit(<<".","j","s">>)>>, <<Lit(<<"j","s">>)>>>>)>>), WB>>>>],
    \* Express: \bexpress(?:\.js|js)?\b
    [label |-> <<"E","x","p","r","e","s","s">>,
     patterns |-> <<<<WB, Lit(<<"e","x","p","r","e","s","s">>), Opt(<<Alt(<<<<Lit(<<".","j","s">>)>>, <<Lit(<<"j","s">>)>>>>)>>), WB>>>>],
    \* Django: \bdjango\b
    [label |-> <<"D","j","a","n","g","o">>,
     patterns |-> <<<<WB, Lit(<<"d","j","a","n","g","o">>), WB>>>>],
    \* Flask: \bflask\b
    [label |-> <<"F","l","a","s","k">>,
     patterns |-> <<<<WB, Lit(<<"f","l","a","s","k">>), WB>>>>],
    \* Spring Boot: \bspring\s*boot\b  \bspringboot\b
    [label |-> <<"S","p","r","i","n","g"," ","B","o","o","t">>,
     patterns |-> <<<<WB, Lit(<<"s","p","r","i","n","g">>), Star({"SPACE"}), Lit(<<"b","o","o","t">>), WB>>,
                    <<WB, Lit(<<"s","p","r","i","n","g","b","o","o","t">>), WB>>>>],
    \* Android: \bandroid\b
    [label |-> <<"A","n","d","r","o","i","d">>,
     patterns |-> <<<<WB, Lit(<<"a","n","d","r","o","i","d">>), WB>>>>],
    \* iOS: \bios\b
    [label |-> <<"i","O","S">>,
     patterns |-> <<<<WB, Lit(<<"i","o","s">>), WB>>>>],
    \* Flutter: \bflutter\b
    [label |-> <<"F","l","u","t","t","e","r">>,
     patterns |-> <<<<WB, Lit(<<"f","l","u","t","t","e","r">>), WB>>>>],
    \* React Native: \breact\s*native\b
    [label |-> <<"R","e","a","c","t"," ","N","a","t","i","v","e">>,
     patterns |-> <<<<WB, Lit(<<"r","e","a","c","t">>), Star({"SPACE"}), Lit(<<"n","a","t","i","v","e">>), WB>>>>],
    \* AWS: \baws\b  \bamazon\s+web\s+services\b
    [label |-> <<"A","W","S">>,
     patterns |-> <<<<WB, Lit(<<"a","w","s">>), WB>>,
                    <<WB, Lit(<<"a","m","a","z","o","n">>), Plus({"SPACE"}), Lit(<<"w","e","b">>), Plus({"SPACE"}), Lit(<<"s","e","r","v","i","c","e","s">>), WB>>>>],
    \* Azure: \bazure\b
    [label |-> <<"A","z","u","r","e">>,
     patterns |-> <<<<WB, Lit(<<"a","z","u","r","e">>), WB>>>>],
    \* Docker: \bdocker\b
    [label |-> <<"D","o","c","k","e","r">>,
     patterns |-> <<<<WB, Lit(<<"d","o","c","k","e","r">>), WB>>>>],
    \* Kubernetes: \bkubernetes\b  \bk8s\b
    [label |-> <<"K","u","b","e","r","n","e","t","e","s">>,
     patterns |-> <<<<WB, Lit(<<"k","u","b","e","r","n","e","t","e","s">>), WB>>,
                    <<WB, Lit(<<"k","8","s">>), WB>>>>],
    \* REST API: \brest(?:ful)?\s*api(?:s)?\b  \brest\b
    [label |-> <<"R","E","S","T"," ","A","P","I">>,
     patterns |-> <<<<WB, Lit(<<"r","e","s","t">>), Opt(<<Lit(<<"f","u","l">>)>>), Star({"SPACE"}), Lit(<<"a","p","i">>), Opt(<<Lit(<<"s">>)>>), WB>>,
                    <<WB, Lit(<<"r","e","s","t">>), WB>>>>],
    \* GraphQL: \bgraphql\b
    [label |-> <<"G","r","a","p","h","Q","L">>,
     patterns |-> <<<<WB, Lit(<<"g","r","a","p","h","q","l">>), WB>>>>],
    \* Microservices: \bmicroservices?\b
    [label |-> <<"M","i","c","r","o","s","e","r","v","i","c","e","s">>,
     patterns |-> <<<<WB, Lit(<<"m","i","c","r","o","s","e","r","v","i","c","e">>), Opt(<<Lit(<<"s">>)>>), WB>>>>],
    \* Agile: \bagile\b
    [label |-> <<"A","g","i","l","e">>,
     patterns |-> <<<<WB, Lit(<<"a","g","i","l","e">>), WB>>>>],
    \* Scrum: \bscrum\b
    [label |-> <<"S","c","r","u","m">>,
     patterns |-> <<<<WB, Lit(<<"s","c","r","u","m">>), WB>>>>],
    \* JIRA: \bjira\b
    [label |-> <<"J","I","R","A">>,
     patterns |-> <<<<WB, Lit(<<"j","i","r","a">>), WB>>>>]
  >>

VALUED_SOFT_SKILLS ==
  <<
     <<"c","o","m","m","u","n","i","c","a","t","i","o","n">>, <<"t","e","a","m","w","o","r","k">>,
     <<"l","e","a","d","e","r","s","h","i","p">>,
     <<"p","r","o","b","l","e","m"," ","s","o","l","v","i","n","g">>,
     <<"c","r","i","t","i","c","a","l"," ","t","h","i","n","k","i","n","g">>,
     <<"t","i","m","e"," ","m","a","n","a","g","e","m","e","n","t">>,
     <<"a","d","a","p","t","a","b","i","l","i","t","y">>,
     <<"c","o","l","l","a","b","o","r","a","t","i","o","n">>,
     <<"c","r","e","a","t","i","v","i","t","y">>,
     <<"a","t","t","e","n","t","i","o","n"," ","t","o"," ","d","e","t","a","i","l">>,
     <<"w","o","r","k"," ","e","t","h","i","c">>,
     <<"i","n","t","e","r","p","e","r","s","o","n","a","l">>
  >>

SKILL_HEADERS ==
  <<
     <<"s","k","i","l","l","s">>, <<"s","k","i","l","l"," ","s","e","t">>,
     <<"s","k","i","l","l","-","s","e","t">>,
     <<"s","k","i","l","l"," ","s","u","m","m","a","r","y">>,
     <<"t","e","c","h","n","i","c","a","l"," ","s","k","i","l","l","s">>,
     <<"t","e","c","h"," ","s","k","i","l","l","s">>,
     <<"t","e","c","h","n","i","c","a","l"," ","s","k","i","l","l">>,
     <<"s","o","f","t"," ","s","k","i","l","l","s">>, <<"s","o","f","t"," ","s","k","i","l","l">>,
     <<"p","e","r","s","o","n","a","l"," ","s","k","i","l","l","s">>,
     <<"i","n","t","e","r","p","e","r","s","o","n","a","l"," ","s","k","i","l","l","s">>,
     <<"t","e","c","h","n","o","l","o","g","i","e","s">>,
     <<"t","e","c","h"," ","s","t","a","c","k">>,
     <<"t","o","o","l","s"," ","&"," ","t","e","c","h","n","o","l","o","g","i","e","s">>,
     <<"p","r","o","g","r","a","m","m","i","n","g">>
  >>

STOP_WORDS ==
  <<
     <<"p","r","o","j","e","c","t">>, <<"p","r","o","j","e","c","t","s">>,
     <<"e","x","p","e","r","i","e","n","c","e">>, <<"e","d","u","c","a","t","i","o","n">>,
     <<"q","u","a","l","i","f","i","c","a","t","i","o","n">>,
     <<"r","e","f","e","r","e","n","c","e">>, <<"r","e","f","e","r","e","n","c","e","s">>,
     <<"c","o","n","t","a","c","t">>, <<"c","e","r","t","i","f","i","c","a","t","i","o","n">>,
     <<"c","e","r","t","i","f","i","c","a","t","e">>,
     <<"a","c","h","i","e","v","e","m","e","n","t">>,
     <<"a","c","h","i","e","v","e","m","e","n","t","s">>, <<"p","r","o","f","i","l","e">>,
     <<"s","u","m","m","a","r","y">>, <<"d","e","c","l","a","r","a","t","i","o","n">>,
     <<"l","a","n","g","u","a","g","e">>, <<"l","a","n","g","u","a","g","e","s">>,
     <<"i","n","t","e","r","e","s","t">>, <<"i","n","t","e","r","e","s","t","s">>,
     <<"v","o","l","u","n","t","e","e","r">>
  >>

SOFT_HEADERS ==
  <<
     <<"s","o","f","t"," ","s","k","i","l","l">>, <<"s","o","f","t"," ","s","k","i","l","l","s">>,
     <<"p","e","r","s","o","n","a","l"," ","s","k","i","l","l","s">>,
     <<"i","n","t","e","r","p","e","r","s","o","n","a","l">>
  >>

TECH_HEADERS ==
  <<
     <<"t","e","c","h","n","i","c","a","l"," ","s","k","i","l","l">>,
     <<"t","e","c","h","n","i","c","a","l"," ","s","k","i","l","l","s">>,
     <<"t","e","c","h"," ","s","t","a","c","k">>,
     <<"t","e","c","h","n","o","l","o","g","i","e","s">>,
     <<"p","r","o","g","r","a","m","m","i","n","g">>, <<"t","o","o","l","s">>
  >>

\* s.startswith(prefix)
startswith(s, prefix) == Len(prefix) <= Len(s) /\ SubSeq(s, 1, Len(prefix)) = prefix

\* any(h in line for h in hs)
any_in(hs, text) == \E i \in DOMAIN hs : Contains(hs[i], text)

is_header(line_lower) ==
  \E i \in DOMAIN SKILL_HEADERS :
     SKILL_HEADERS[i] = line_lower \/ startswith(line_lower, SKILL_HEADERS[i])

\* re.sub(r"^[•\-\*•]+\s*", "", s): a leading run of bullet marks and
\* the whitespace after it are removed
strip_bullets(s) ==
  LET marks  == {BULLET, "-", "*"}
      others == {i \in DOMAIN s : s[i] \notin marks}
      first  == IF others = {} THEN Len(s) + 1 ELSE SeqMin(others)
  IN  IF first = 1 THEN s ELSE SkipSpaces(SubSeq(s, first, Len(s)))

\* the characters of the class [,\|•/;] of split_items
ITEM_SEPARATORS == {",", "|", BULLET, "/", ";"}

\* the parts with one more character in the last of them
extend_last(parts, c) == [parts EXCEPT ![Len(parts)] = Append(@, c)]

\* re.split(r"[,\|•/;]+", s)
re_split_items(s) ==
  LET F[n \in 0..Len(s)] ==
        IF n = 0 THEN << <<>> >>
        ELSE IF s[n] \in ITEM_SEPARATORS
               THEN IF n > 1 /\ s[n - 1] \in ITEM_SEPARATORS
                      THEN F[n - 1]
                      ELSE Append(F[n - 1], <<>>)
               ELSE extend_last(F[n - 1], s[n])
  IN  F[Len(s)]

split_items(text) ==
  LET s        == strip(text)
      parts    == re_split_items(strip_bullets(s))
      stripped == [i \in DOMAIN parts |-> strip(parts[i])]
  IN  IF s = <<>> THEN <<>>
      ELSE SelectSeq(stripped, LAMBDA p : Len(p) >= 2 /\ Len(p) <= 40)

is_tech_skill(tok) ==
  LET low == lower(strip(tok))
  IN  /\ low # <<>>
      /\ \E n \in DOMAIN TECH_KEYWORD_VARIANTS_06 :
           \E p \in DOMAIN TECH_KEYWORD_VARIANTS_06[n].patterns :
              re_search(TECH_KEYWORD_VARIANTS_06[n].patterns[p], low)

is_soft_skill(tok) == any_in(VALUED_SOFT_SKILLS, lower(strip(tok)))

\* is_stop_header alone: the line resets the section also when it mentions
\* "skill"
resets_section_any_stop_line(line_clean) ==
  any_in(STOP_WORDS, lower(line_clean)) /\ Len(line_clean) < 30

\* is_stop_header and "skill" not in line_lower
resets_section(line_clean) ==
  /\ any_in(STOP_WORDS, lower(line_clean)) /\ Len(line_clean) < 30
  /\ ~Contains(<<"s","k","i","l","l">>, lower(line_clean))

\* the header branch is taken
is_skills_header(line_clean) == Len(line_clean) < 35 /\ is_header(lower(line_clean))

\* the body of the loop over sorted_lines: the scan state after the line;
\* st has the fields current_section, seen_any_skills_header, soft_skills,
\* technical_skills and mixed_section_lines
scan_line(st, text) ==
  LET line_clean == strip(text)
      line_lower == lower(line_clean)
  IN  IF line_clean = <<>> THEN st
      ELSE IF resets_section(line_clean) THEN [st EXCEPT !.current_section = "None"]
      ELSE IF is_skills_header(line_clean)
        THEN [st EXCEPT !.seen_any_skills_header = TRUE,
                        !.current_section =
                           IF any_in(SOFT_HEADERS, line_lower) THEN "soft"
                           ELSE IF any_in(TECH_HEADERS, line_lower) THEN "technical"
                           ELSE "mixed"]
      ELSE IF st.current_section = "soft"
        THEN [st EXCEPT !.soft_skills = @ \o split_items(line_clean)]
      ELSE IF st.current_section = "technical"
        THEN [st EXCEPT !.technical_skills = @ \o split_items(line_clean)]
      ELSE IF st.current_section = "mixed"
        THEN [st EXCEPT !.mixed_section_lines = Append(@, line_clean)]
      ELSE st

\* the tokens of the lines, in order
RECURSIVE tokens_of(_, _)
tokens_of(ls, items) ==
  IF ls = <<>> THEN <<>> ELSE items[Head(ls)] \o tokens_of(Tail(ls), items)

\* the body of the loop over the tokens of the mixed lines: the bucket the
\* token is appended to
bucket_of(tok) ==
  IF is_tech_skill(tok) THEN "technical"
  ELSE IF is_soft_skill(tok) THEN "soft"
  ELSE "ignored"

\* the buckets after the auto-split of the mixed lines and the removal of
\* repeats; items[l] is split_items(l) and buckets[tok] is bucket_of(tok)
final_buckets(st, items, buckets) ==
  LET auto   == st.technical_skills = <<>> /\ st.soft_skills = <<>> /\ st.mixed_section_lines # <<>>
      tokens == IF auto THEN tokens_of(st.mixed_section_lines, items) ELSE <<>>
      tech   == st.technical_skills \o SelectSeq(tokens, LAMBDA t : buckets[t] = "technical")
      soft   == st.soft_skills \o SelectSeq(tokens, LAMBDA t : buckets[t] = "soft")
  IN  [technical_skills |-> dict_fromkeys(tech), soft_skills |-> dict_fromkeys(soft)]

\* the scoring with the scores of the two one-bucket cases exchanged
skills_score_soft_over_tech(has_soft, has_tech, seen_header) ==
  IF has_soft /\ has_tech THEN [status |-> "success", score |-> 10]
  ELSE IF has_tech THEN [status |-> "warning", score |-> 6]
  ELSE IF has_soft THEN [status |-> "warning", score |-> 7]
  ELSE IF seen_header THEN [status |-> "warning", score |-> 4]
  ELSE [status |-> "error", score |-> 2]

\* the scoring logic at the end of check_skills_separation
skills_score(has_soft, has_tech, seen_header) ==
  IF has_soft /\ has_tech THEN [status |-> "success", score |-> 10]
  ELSE IF has_tech THEN [status |-> "warning", score |-> 7]
  ELSE IF has_soft THEN [status |-> "warning", score |-> 6]
  ELSE IF seen_header THEN [status |-> "warning", score |-> 4]
  ELSE [status |-> "error", score |-> 2]

(***************************************************************************)
(* validate_with_llm on a reply of the LLM                                  *)
(***************************************************************************)
\* what json.loads makes of an unparseable or empty reply in safe_json_loads
EmptyDict == [root |-> "dict", answers |-> "absent", items |-> <<>>]

\* safe_json_loads.  A reply r is described by its form ("empty": nothing or
\* blanks; "text": prose without braces; "list": a JSON list of r.items;
\* "no_answers": a JSON object without the key "answers"; "null_answers":
\* {"answers": null}; "answers": {"answers": r.items}), by r.fenced (inside
\* ``` marks) and by r.prose (prose before and after it).  The value tells
\* the root type, whether the key "answers" is there, and its items.
safe_json_loads(r) ==
  LET value == CASE r.form = "list" -> [root |-> "list", answers |-> "absent", items |-> r.items]
                 [] r.form = "no_answers" -> EmptyDict
                 [] r.form = "null_answers" -> [root |-> "dict", answers |-> "null", items |-> <<>>]
                 [] r.form = "answers" -> [root |-> "dict", answers |-> "list", items |-> r.items]
      \* re.search(r"\{[\s\S]*\}", t): from the first to the last brace
      braces == IF r.form = "list"
                  THEN EmptyDict  \* one object of the list, which has no "answers", or nothing that parses
                  ELSE value
  IN  IF r.form \in {"empty", "text"} THEN EmptyDict
      \* the ``` marks are removed only when the reply starts with them
      ELSE IF ~r.prose THEN value
      ELSE braces

\* the result validate_with_llm returns from its except clause and for a
\* missing key
llm_error == [status |-> "error", results |-> <<>>, passed |-> 0, total |-> 9, score |-> 0]

\* validate_with_llm on a reply; raised: get_markdown_cached or the API call
\* raises
validate_with_llm_reply(api_key, raised, r) ==
  LET data    == safe_json_loads(r)
      answers == IF data.answers = "list" THEN data.items ELSE <<>>
      total   == 9
      first   == head(answers, total)
      passed  == Cardinality({i \in DOMAIN first : first[i] = "yes_true"})
  IN  IF raised \/ ~api_key THEN llm_error
      \* data.get on a list, answers[:total] on None, a.get on a non-dict
      ELSE IF data.root # "dict" \/ data.answers = "null" THEN llm_error
      ELSE IF \E i \in DOMAIN first : first[i] = "not_dict" THEN llm_error
      ELSE [status |-> "success", results |-> first, passed |-> passed,
            total |-> total, score |-> llm_score(passed, total)]

\* a scrape cache without an entry
EmptyCache == [u \in {} |-> ""]

\* get_job_matcher has not created a matcher
NoMatcher == 0

\* nothing has been called on the matcher
NoCall == [op |-> "none", top_n |-> 0, results |-> <<>>]

(***************************************************************************)
(* Values of the variables an operation does not use                       *)
(***************************************************************************)
IdleScore ==
  /\ results = <<>>
  /\ llm_std = 0
  /\ blind_mode = FALSE
  /\ overall = None
  /\ cv_file = None

IdleToken ==
  /\ token = <<>>
  /\ once = None
  /\ twice = None

IdleText ==
  /\ words = <<>>
  /\ cv_text = <<>>
  /\ found = None
  /\ refound = None
  /\ cv_level = None

IdleClean ==
  /\ skills_in = <<>>
  /\ cleaned = None
  /\ recleaned = None
  /\ cleaned_str = None

IdleJobs ==
  /\ corpus = <<>>
  /\ df = None
  /\ user_skills = None
  /\ jobs = None

IdlePosting ==
  /\ job_title = <<>>
  /\ job_desc = <<>>
  /\ job_level = None

IdleSeniority ==
  /\ seniority_mode = None

IdleRanking ==
  /\ top_n = None
  /\ scored = None

IdleUpload ==
  /\ pdf_opens = TRUE

IdleLlm ==
  /\ groq_api_key = TRUE
  /\ raw = <<>>
  /\ llm_result = None

IdleFiles ==
  /\ inodes = <<>>
  /\ dir = <<>>
  /\ wpc = <<>>
  /\ rpc = "closed"
  /\ handle = 0
  /\ seen = <<>>

IdleUploads ==
  /\ upload_dir = <<>>
  /\ rq = <<>>

IdleScan ==
  /\ line = <<>>
  /\ n_lines = 0
  /\ current_section = "None"
  /\ seen_any_skills_header = FALSE
  /\ soft_skills = <<>>
  /\ technical_skills = <<>>
  /\ mixed_section_lines = <<>>
  /\ skills_result = None

IdleEmail ==
  /\ pieces = <<>>
  /\ full_text = <<>>
  /\ email_result = None

IdleMatcher ==
  /\ job_matcher_instance = NoMatcher
  /\ matchers = <<>>
  /\ matcher = NoMatcher
  /\ call = NoCall

IdleGithub ==
  /\ cv_links = <<>>
  /\ github_result = None

IdleEnrich ==
  /\ cache_file = EmptyCache
  /\ runs = <<>>

varsScore == <<results, llm_std, blind_mode, overall, cv_file>>

varsToken == <<token, once, twice>>

varsText == <<words, cv_text, found, refound, cv_level>>

varsClean == <<skills_in, cleaned, recleaned, cleaned_str>>

varsJobs == <<corpus, df, user_skills, jobs>>

varsPosting == <<job_title, job_desc, job_level>>

varsSeniority == <<seniority_mode>>

varsRanking == <<top_n, scored>>

varsUpload == <<pdf_opens>>

varsLlm == <<groq_api_key, raw, llm_result>>

varsFiles == <<inodes, dir, wpc, rpc, handle, seen>>

varsUploads == <<upload_dir, rq>>

varsScan == <<line, n_lines, current_section, seen_any_skills_header, soft_skills, technical_skills, mixed_section_lines, skills_result>>

varsEmail == <<pieces, full_text, email_result>>

varsMatcher == <<job_matcher_instance, matchers, matcher, call>>

varsGithub == <<cv_links, github_result>>

varsEnrich == <<cache_file, runs>>

(***************************************************************************)
(* normalize_token applied to a token, and again to its own result         *)
(***************************************************************************)
\* longest token typed character by character
MaxTokenLen == 4

\* characters a typed token is made of: the letters of the key "js" in both
\* cases, and whitespace
TokenChars == {"j", "s", "J", "S", " ", "\t"}

\* the keys and the values of the synonym table
SynonymEntries == {e[1] : e \in SKILL_SYNONYMS} \cup {e[2] : e \in SKILL_SYNONYMS}

upper(s) ==
  [i \in DOMAIN s |->
     IF s[i] \in LowerLetters
       THEN ASCII_UPPER[CHOOSE n \in DOMAIN ASCII_LOWER : ASCII_LOWER[n] = s[i]]
       ELSE s[i]]

\* every space of s doubled
RECURSIVE DoubleSpaces(_)
DoubleSpaces(s) ==
  IF s = <<>> THEN <<>>
  ELSE IF Head(s) = " " THEN <<" ", " ">> \o DoubleSpaces(Tail(s))
  ELSE <<Head(s)>> \o DoubleSpaces(Tail(s))

\* a table entry as a user may write it: other case, padded, inner
\* whitespace repeated
Variants(s) ==
  {s, upper(s), <<" ">> \o s \o <<"\t", " ">>, DoubleSpaces(s),
   <<"\n">> \o upper(DoubleSpaces(s))}

InitNormalize ==
  /\ pc = "token"
  /\ IdleScore /\ IdleText /\ IdleClean /\ IdleJobs /\ IdlePosting /\ IdleSeniority /\ IdleRanking /\ IdleUpload /\ IdleLlm /\ IdleFiles /\ IdleUploads /\ IdleScan /\ IdleEmail /\ IdleMatcher /\ IdleGithub /\ IdleEnrich
  /\ token = <<>>
  /\ once = None
  /\ twice = None

TypeChar(c) ==
  /\ pc = "token"
  /\ Len(token) < MaxTokenLen
  /\ token' = Append(token, c)
  /\ UNCHANGED <<pc, once, twice>>

TakeEntry(e) ==
  /\ pc = "token"
  /\ token = <<>>
  /\ token' = e
  /\ UNCHANGED <<pc, once, twice>>

Normalize ==
  /\ pc = "token"
  /\ once' = normalize_token(token)
  /\ pc' = "once"
  /\ UNCHANGED <<token, twice>>

NormalizeAgain ==
  /\ pc = "once"
  /\ twice' = normalize_token(once)
  /\ pc' = "twice"
  /\ UNCHANGED <<token, once>>

NextNormalize ==
  /\ \/ \E c \in TokenChars : TypeChar(c)
     \/ \E s \in SynonymEntries : \E e \in Variants(s) : TakeEntry(e)
     \/ Normalize
     \/ NormalizeAgain
  /\ UNCHANGED <<varsScore, varsText, varsClean, varsJobs, varsPosting, varsSeniority, varsRanking, varsUpload, varsLlm, varsFiles, varsUploads, varsScan, varsEmail, varsMatcher, varsGithub, varsEnrich>>

SpecNormalize == InitNormalize /\ [][NextNormalize]_vars

\* C5: normalize_token is idempotent: normalising the result of
\* normalize_token again returns it unchanged, for every token.
NormalizeIdempotent == pc = "twice" => twice = once

\* a synonym key written in capitals with padding was mapped to its value
NormalizeIdempotentWitness ==
  /\ pc = "twice"
  /\ token # once
  /\ \E e \in SKILL_SYNONYMS : once = e[2] /\ token # e[1]

(***************************************************************************)
(* extract_skills_from_text applied to a text, and again to its own result *)
(***************************************************************************)
\* number of words a text is written from
MaxWords == 3

\* the words of a text, each with the canonical skill it mentions
SkillWords ==
  { [w |-> <<"P","y","t","h","o","n">>,                 skill |-> <<"p","y","t","h","o","n">>],
    [w |-> <<"j","a","v","a">>,                         skill |-> <<"j","a","v","a">>],
    [w |-> <<"j","s">>,                                 skill |-> <<"j","a","v","a","s","c","r","i","p","t">>],
    [w |-> <<"J","a","v","a","S","c","r","i","p","t">>, skill |-> <<"j","a","v","a","s","c","r","i","p","t">>],
    [w |-> <<"s","p","r","i","n","g","b","o","o","t">>, skill |-> <<"s","p","r","i","n","g"," ","b","o","o","t">>] }

\* the skills the words of the text mention, in the order of their first
\* mention in the text
FirstMentionOrder == dict_fromkeys([i \in DOMAIN words |-> words[i].skill])

\* place of a canonical skill in TECH_KEYWORD_VARIANTS
CanonicalNames ==
  [n \in DOMAIN TECH_KEYWORD_VARIANTS |-> normalize_token(TECH_KEYWORD_VARIANTS[n].label)]

TableIndex(skill) == CHOOSE n \in DOMAIN CanonicalNames : CanonicalNames[n] = skill

InitExtract ==
  /\ pc = "text"
  /\ IdleScore /\ IdleToken /\ IdleClean /\ IdleJobs /\ IdlePosting /\ IdleSeniority /\ IdleRanking /\ IdleUpload /\ IdleLlm /\ IdleFiles /\ IdleUploads /\ IdleScan /\ IdleEmail /\ IdleMatcher /\ IdleGithub /\ IdleEnrich
  /\ words = <<>>
  /\ cv_text = <<>>
  /\ found = None
  /\ refound = None
  /\ cv_level = None

\* one more word is written
WriteWord(e) ==
  /\ pc = "text"
  /\ Len(words) < MaxWords
  /\ words' = Append(words, e)
  /\ cv_text' = IF cv_text = <<>> THEN e.w ELSE cv_text \o <<" ">> \o e.w
  /\ UNCHANGED <<pc, found, refound, cv_level>>

ExtractSkills ==
  /\ pc = "text"
  /\ found' = extract_skills_from_text(cv_text)
  /\ pc' = "found"
  /\ UNCHANGED <<words, cv_text, refound, cv_level>>

ExtractAgain ==
  /\ pc = "found"
  /\ refound' = extract_skills_from_text(join(<<" ">>, found))
  /\ pc' = "refound"
  /\ UNCHANGED <<words, cv_text, found, cv_level>>

NextExtract ==
  /\ \/ \E e \in SkillWords : WriteWord(e)
     \/ ExtractSkills
     \/ ExtractAgain
  /\ UNCHANGED <<varsScore, varsToken, varsClean, varsJobs, varsPosting, varsSeniority, varsRanking, varsUpload, varsLlm, varsFiles, varsUploads, varsScan, varsEmail, varsMatcher, varsGithub, varsEnrich>>

SpecExtract == InitExtract /\ [][NextExtract]_vars

\* C6 as stated: every mentioned skill appears exactly once, and the result
\* lists the skills in the order of their first occurrence in the text.
ExtractInTextOrder == pc = "found" => found = FirstMentionOrder

\* C6 amended: every mentioned skill appears exactly once, and the result
\* lists the skills in the order of the table TECH_KEYWORD_VARIANTS,
\* wherever the text mentions them.
ExtractOnceInTableOrder ==
  pc = "found" =>
    /\ Elems(found) = Elems(FirstMentionOrder)
    /\ \A i, j \in DOMAIN found : i < j => TableIndex(found[i]) < TableIndex(found[j])

\* a skill is mentioned twice, through two patterns, after a skill that
\* stands later in the table
ExtractOnceWitness ==
  /\ pc = "found"
  /\ Len(words) = 3
  /\ words[1].skill = <<"p","y","t","h","o","n">>
  /\ words[2].w = <<"j","s">>
  /\ words[3].w = <<"J","a","v","a","S","c","r","i","p","t">>
  /\ found = << <<"p","y","t","h","o","n">>, <<"j","a","v","a","s","c","r","i","p","t">> >>

\* C7: extracting again from the space-joined result of an extraction
\* yields the same set of skills.
ExtractIdempotent == pc = "refound" => Elems(refound) = Elems(found)

(***************************************************************************)
(* clean_skill_list applied to a list, to its own result and to the        *)
(* comma-separated string of the same tokens                               *)
(***************************************************************************)
\* longest list handed to clean_skill_list
MaxSkills == 3

\* raw tokens, each with the canonical skill it stands for (None: not a skill)
RawTokens ==
  { [t |-> <<"R","e","a","c","t">>,     skill |-> <<"r","e","a","c","t">>],
    [t |-> <<"r","e","a","c","t">>,     skill |-> <<"r","e","a","c","t">>],
    [t |-> <<"R","E","A","C","T"," ">>, skill |-> <<"r","e","a","c","t">>],
    [t |-> <<"j","s">>,                 skill |-> <<"j","a","v","a","s","c","r","i","p","t">>],
    [t |-> <<"C","I","/","C","D">>,     skill |-> <<"c","i","/","c","d">>],
    [t |-> <<"S","e","n","i","o","r">>, skill |-> None] }

\* the canonical skill of a token of RawTokens
SkillOf(t) == (CHOOSE e \in RawTokens : e.t = t).skill

\* the canonical skills of the tokens of a list, once each, in first-seen order
CanonicalOnce(tokens) ==
  LET IsSkill(x) == x # None
  IN  dict_fromkeys(SelectSeq([i \in DOMAIN tokens |-> SkillOf(tokens[i])], IsSkill))

InitClean ==
  /\ pc = "list"
  /\ IdleScore /\ IdleToken /\ IdleText /\ IdleJobs /\ IdlePosting /\ IdleSeniority /\ IdleRanking /\ IdleUpload /\ IdleLlm /\ IdleFiles /\ IdleUploads /\ IdleScan /\ IdleEmail /\ IdleMatcher /\ IdleGithub /\ IdleEnrich
  /\ skills_in = <<>>
  /\ cleaned = None
  /\ recleaned = None
  /\ cleaned_str = None

AddSkill(e) ==
  /\ pc = "list"
  /\ Len(skills_in) < MaxSkills
  /\ skills_in' = Append(skills_in, e.t)
  /\ UNCHANGED <<pc, cleaned, recleaned, cleaned_str>>

CleanList ==
  /\ pc = "list"
  /\ cleaned' = clean_skill_list(skills_in)
  /\ pc' = "cleaned"
  /\ UNCHANGED <<skills_in, recleaned, cleaned_str>>

CleanAgain ==
  /\ pc = "cleaned"
  /\ recleaned' = clean_skill_list(cleaned)
  /\ pc' = "recleaned"
  /\ UNCHANGED <<skills_in, cleaned, cleaned_str>>

CleanString ==
  /\ pc = "recleaned"
  /\ cleaned_str' = clean_skill_string(join(<<",">>, skills_in))
  /\ pc' = "string"
  /\ UNCHANGED <<skills_in, cleaned, recleaned>>

NextClean ==
  /\ \/ \E e \in RawTokens : AddSkill(e)
     \/ CleanList
     \/ CleanAgain
     \/ CleanString
  /\ UNCHANGED <<varsScore, varsToken, varsText, varsJobs, varsPosting, varsSeniority, varsRanking, varsUpload, varsLlm, varsFiles, varsUploads, varsScan, varsEmail, varsMatcher, varsGithub, varsEnrich>>

SpecClean == InitClean /\ [][NextClean]_vars

\* C8: clean_skill_list collapses the case and whitespace variants of a
\* skill into one canonical entry in first-seen order, cleaning the result
\* again changes nothing, and the comma-separated string of the same tokens
\* gives the same result as the list.
CleanListStringAgree ==
  pc = "string" =>
    /\ cleaned = CanonicalOnce(skills_in)
    /\ recleaned = cleaned
    /\ cleaned_str = cleaned

(***************************************************************************)
(* estimate_cv_level applied to a CV text                                  *)
(***************************************************************************)
\* the phrases of a CV text, each with the keyword class it carries and the
\* number of years it states
LevelWords ==
  { [w |-> <<"i","n","t","e","r","n">>,                 kind |-> "intern", years |-> 0],
    [w |-> <<"G","r","a","d","u","a","t","e">>,         kind |-> "junior", years |-> 0],
    [w |-> <<"S","e","n","i","o","r">>,                 kind |-> "senior", years |-> 0],
    [w |-> <<"5","+"," ","y","e","a","r","s">>,         kind |-> "none",   years |-> 5],
    [w |-> <<"2"," ","y","e","a","r","s">>,             kind |-> "none",   years |-> 2],
    [w |-> <<"1","y","e","a","r">>,                     kind |-> "none",   years |-> 1],
    [w |-> <<"e","x","p","e","r","i","e","n","c","e">>, kind |-> "none",   years |-> 0] }

HasKind(k) == \E i \in DOMAIN words : words[i].kind = k

\* the largest number of years the text states, 0 when it states none
StatedYears == SeqMax({words[i].years : i \in DOMAIN words} \cup {0})

InitLevel ==
  /\ pc = "cv"
  /\ IdleScore /\ IdleToken /\ IdleClean /\ IdleJobs /\ IdlePosting /\ IdleSeniority /\ IdleRanking /\ IdleUpload /\ IdleLlm /\ IdleFiles /\ IdleUploads /\ IdleScan /\ IdleEmail /\ IdleMatcher /\ IdleGithub /\ IdleEnrich
  /\ words = <<>>
  /\ cv_text = <<>>
  /\ found = None
  /\ refound = None
  /\ cv_level = None

WritePhrase(e) ==
  /\ pc = "cv"
  /\ Len(words) < MaxWords
  /\ words' = Append(words, e)
  /\ cv_text' = IF cv_text = <<>> THEN e.w ELSE cv_text \o <<" ">> \o e.w
  /\ UNCHANGED <<pc, found, refound, cv_level>>

EstimateCvLevel ==
  /\ pc = "cv"
  /\ cv_level' = estimate_cv_level(cv_text)
  /\ pc' = "level"
  /\ UNCHANGED <<words, cv_text, found, refound>>

NextLevel ==
  /\ \/ \E e \in LevelWords : WritePhrase(e)
     \/ EstimateCvLevel
  /\ UNCHANGED <<varsScore, varsToken, varsClean, varsJobs, varsPosting, varsSeniority, varsRanking, varsUpload, varsLlm, varsFiles, varsUploads, varsScan, varsEmail, varsMatcher, varsGithub, varsEnrich>>

SpecLevel == InitLevel /\ [][NextLevel]_vars

\* C10: estimate_cv_level is an ordered cascade: an intern keyword gives
\* Intern/Junior; otherwise a junior/trainee/graduate keyword gives
\* Intern/Junior; otherwise a senior-title keyword gives Senior; otherwise
\* the largest stated number of years decides (>= 5 Senior, >= 2 Mid);
\* otherwise Intern/Junior.
CvLevelCascade ==
  pc = "level" =>
    cv_level = IF HasKind("intern") THEN "intern_junior"
               ELSE IF HasKind("junior") THEN "intern_junior"
               ELSE IF HasKind("senior") THEN "senior"
               ELSE IF StatedYears >= 5 THEN "senior"
               ELSE IF StatedYears >= 2 THEN "mid"
               ELSE "intern_junior"

\* a CV with "5+ years experience" and the word "intern" is Intern/Junior
CvLevelCascadeWitness ==
  /\ pc = "level"
  /\ cv_text = <<"5","+"," ","y","e","a","r","s"," ","e","x","p","e","r","i","e","n","c","e",
                 " ","i","n","t","e","r","n">>
  /\ cv_level = "intern_junior"

(***************************************************************************)
(* calculate_overall_score applied to a results map                        *)
(***************************************************************************)
\* largest number of criteria present in the results map
MaxPresent == 2

\* criterion scores put in the map, in tenths
ScoreSamples == {0, 50, 100}

\* llm_std arguments, in tenths
StdSamples == {0, 20}

InitOverall ==
  /\ pc = "results"
  /\ results = <<>>
  /\ llm_std \in StdSamples
  /\ blind_mode = FALSE
  /\ overall = None
  /\ cv_file = None
  /\ IdleToken /\ IdleText /\ IdleClean /\ IdleJobs /\ IdlePosting /\ IdleSeniority /\ IdleRanking /\ IdleUpload /\ IdleLlm /\ IdleFiles /\ IdleUploads /\ IdleScan /\ IdleEmail /\ IdleMatcher /\ IdleGithub /\ IdleEnrich

AddResult(key, score) ==
  /\ pc = "results"
  /\ key \notin DOMAIN results
  /\ Cardinality(DOMAIN results) < MaxPresent
  /\ results' = results @@ (key :> [status |-> "success", score |-> score])
  /\ UNCHANGED <<pc, llm_std, blind_mode, overall, cv_file>>

CalculateOverallScore ==
  /\ pc = "results"
  /\ overall' \in calculate_overall_score(results, llm_std)
  /\ pc' = "scored"
  /\ UNCHANGED <<results, llm_std, blind_mode, cv_file>>

NextOverall ==
  /\ \/ \E key \in Criteria, score \in ScoreSamples : AddResult(key, score)
     \/ CalculateOverallScore
  /\ UNCHANGED <<varsToken, varsText, varsClean, varsJobs, varsPosting, varsSeniority, varsRanking, varsUpload, varsLlm, varsFiles, varsUploads, varsScan, varsEmail, varsMatcher, varsGithub, varsEnrich>>

SpecOverall == InitOverall /\ [][NextOverall]_vars

\* the items of the weight table whose criterion is present in the results map
present_weights ==
  SelectSeq(weights_for(llm_std), LAMBDA item : item[1] \in DOMAIN results)

\* C1: the overall score is, up to rounding to one decimal, the weighted
\* mean sum(w_k * score_k) / sum(w_k) over the criteria present in the
\* results map only; a missing criterion is left out of the mean.
OverallIsMeanOfPresent ==
  (pc = "scored" /\ DOMAIN results # {}) =>
    overall.score \in rounded(total_score_of(present_weights, results, Len(present_weights)),
                              total_weight_of(present_weights, Len(present_weights)))

\* C2: the weight table a call without llm adjustment uses has exactly 15
\* entries and its weights sum to 1.0 (100 hundredths).
WeightTableSumsToOne ==
  (pc = "scored" /\ ~overall.llm_weight_adjusted) =>
    /\ Len(weights_for(llm_std)) = 15
    /\ Cardinality({weights_for(llm_std)[i][1] : i \in 1..Len(weights_for(llm_std))}) = 15
    /\ total_weight_of(weights_for(llm_std), Len(weights_for(llm_std))) = 100

(***************************************************************************)
(* A scoring request: index and api_validate                               *)
(***************************************************************************)
\* largest number of criteria on which the uploaded CV differs from the
\* CV that earns every criterion its full score
MaxFlaws == 2

\* longest reply of the LLM, in answers
MaxAnswers == 10

Raised == [raise |-> TRUE]

\* a reply of n answers of which the first k say yes
Answers(n, k) == [i \in 1..n |-> i <= k]

\* the facts each check function can find in a document
DocumentFacts ==
  [page_count |-> {Raised} \cup {[raise |-> FALSE, page_count |-> n] : n \in 1..3},
   gpa |-> {Raised} \cup {[raise |-> FALSE, found_value |-> v, gpa_keyword |-> k] :
                            <<v, k>> \in {<<TRUE, TRUE>>, <<FALSE, TRUE>>, <<FALSE, FALSE>>}},
   professional_email |->
     {Raised, [raise |-> FALSE, emails |-> FALSE]}
     \cup {[raise |-> FALSE, emails |-> TRUE, slang |-> s, long_number |-> d, many_symbols |-> m] :
             <<s, d, m>> \in {<<FALSE, FALSE, FALSE>>, <<FALSE, TRUE, FALSE>>, <<TRUE, FALSE, FALSE>>,
                              <<TRUE, TRUE, FALSE>>, <<TRUE, TRUE, TRUE>>}},
   photo |-> {Raised} \cup {[raise |-> FALSE, has_image |-> b] : b \in BOOLEAN},
   ol_al |-> {Raised} \cup {[raise |-> FALSE, has_ol |-> o, has_al |-> a] : o \in BOOLEAN, a \in BOOLEAN},
   formatting |-> {Raised} \cup {[raise |-> FALSE, font_sizes |-> n, small_margin |-> m] :
                                   n \in {1, 3, 7}, m \in BOOLEAN},
   specialization |-> {Raised} \cup {[raise |-> FALSE, keyword_in_text |-> b] : b \in BOOLEAN},
   github |-> {Raised, [raise |-> FALSE, links |-> FALSE]}
              \cup {[raise |-> FALSE, links |-> TRUE, valid_profile |-> p, valid_repo |-> r] :
                      p \in 0..1, r \in 0..3},
   skills |-> {Raised} \cup {[raise |-> FALSE, soft_skills |-> s, technical_skills |-> t] :
                               s \in BOOLEAN, t \in BOOLEAN},
   keywords |-> {Raised} \cup {[raise |-> FALSE, kw_count |-> n] : n \in {2, 3, 5, 10}},
   contact |-> {Raised}
               \cup {[raise |-> FALSE, has_phone |-> p, has_email |-> e, has_linkedin |-> l, has_location |-> a] :
                       <<p, e, l, a>> \in {<<TRUE, TRUE, TRUE, TRUE>>, <<TRUE, TRUE, TRUE, FALSE>>,
                                           <<FALSE, TRUE, TRUE, TRUE>>, <<TRUE, TRUE, FALSE, FALSE>>,
                                           <<TRUE, FALSE, TRUE, FALSE>>, <<FALSE, FALSE, TRUE, TRUE>>,
                                           <<FALSE, FALSE, FALSE, FALSE>>}},
   action_verbs |-> {Raised} \cup {[raise |-> FALSE, n |-> n] : n \in {2, 3, 5, 8}},
   achievements |-> {Raised} \cup {[raise |-> FALSE, n |-> n] : n \in {0, 1, 3, 5}},
   summary |-> {Raised, [raise |-> FALSE, blocks |-> FALSE]}
               \cup {[raise |-> FALSE, blocks |-> TRUE, has_top |-> t, has_summary |-> s] :
                       <<t, s>> \in {<<TRUE, TRUE>>, <<FALSE, TRUE>>, <<FALSE, FALSE>>}},
   llm |-> {Raised, [raise |-> FALSE, api_key |-> FALSE]}
           \cup {[raise |-> FALSE, api_key |-> TRUE, answers |-> Answers(n, k)] :
                   <<n, k>> \in {<<0, 0>>, <<MaxAnswers, MaxAnswers>>} \cup ({9} \X (0..9))}]

\* the CV on which every criterion finds what it looks for
IdealDocument ==
  [page_count |-> [raise |-> FALSE, page_count |-> 1],
   gpa |-> [raise |-> FALSE, found_value |-> TRUE, gpa_keyword |-> TRUE],
   professional_email |-> [raise |-> FALSE, emails |-> TRUE, slang |-> FALSE,
                           long_number |-> FALSE, many_symbols |-> FALSE],
   photo |-> [raise |-> FALSE, has_image |-> TRUE],
   ol_al |-> [raise |-> FALSE, has_ol |-> FALSE, has_al |-> FALSE],
   formatting |-> [raise |-> FALSE, font_sizes |-> 3, small_margin |-> FALSE],
   specialization |-> [raise |-> FALSE, keyword_in_text |-> TRUE],
   github |-> [raise |-> FALSE, links |-> TRUE, valid_profile |-> 1, valid_repo |-> 3],
   skills |-> [raise |-> FALSE, soft_skills |-> TRUE, technical_skills |-> TRUE],
   keywords |-> [raise |-> FALSE, kw_count |-> 10],
   contact |-> [raise |-> FALSE, has_phone |-> TRUE, has_email |-> TRUE,
                has_linkedin |-> TRUE, has_location |-> TRUE],
   action_verbs |-> [raise |-> FALSE, n |-> 8],
   achievements |-> [raise |-> FALSE, n |-> 5],
   summary |-> [raise |-> FALSE, blocks |-> TRUE, has_top |-> TRUE, has_summary |-> TRUE],
   llm |-> [raise |-> FALSE, api_key |-> TRUE, answers |-> Answers(9, 9)]]

\* the criteria on which a document differs from the ideal one
flaws(doc) == {key \in DOMAIN doc : doc[key] # IdealDocument[key]}

\* position of a criterion in the weight table
position(key) == CHOOSE i \in DOMAIN WEIGHTS : WEIGHTS[i][1] = key

\* the results dict of the 14 check functions
check_results(doc) ==
  [page_count         |-> check_cv_page_count(doc.page_count),
   gpa                |-> check_gpa_in_cv(doc.gpa),
   professional_email |-> check_professional_email(doc.professional_email),
   photo              |-> check_photo_presence(doc.photo),
   ol_al              |-> check_ol_al_presence(doc.ol_al),
   formatting         |-> check_formatting_quality(doc.formatting),
   specialization     |-> find_specialization(doc.specialization),
   github             |-> validate_github_links(doc.github),
   skills             |-> check_skills_separation(doc.skills),
   keywords           |-> validate_technical_keywords(doc.keywords),
   contact            |-> check_contact_information(doc.contact),
   action_verbs       |-> check_action_verbs(doc.action_verbs),
   achievements       |-> check_quantifiable_achievements(doc.achievements),
   summary            |-> check_professional_summary(doc.summary)]

\* the reports a request can build for a document
score_reports(doc, blind) ==
  LET checked  == check_results(doc) @@ ("llm" :> validate_with_llm(doc.llm))
      adjusted == apply_blind_mode(checked, blind)
  IN  { adjusted @@ ("overall" :> o) @@ ("dimensions" :> d) :
          <<o, d>> \in calculate_overall_score(adjusted, 0) \X calculate_dimension_scores(adjusted) }

InitRequest ==
  /\ pc = "request"
  /\ results = None
  /\ llm_std = 0
  /\ blind_mode = FALSE
  /\ overall = None
  /\ cv_file = IdealDocument
  /\ IdleToken /\ IdleText /\ IdleClean /\ IdleJobs /\ IdlePosting /\ IdleSeniority /\ IdleRanking /\ IdleUpload /\ IdleLlm /\ IdleFiles /\ IdleUploads /\ IdleScan /\ IdleEmail /\ IdleMatcher /\ IdleGithub /\ IdleEnrich

\* the candidate's CV falls short on one more criterion (the criteria are
\* taken in table order)
WriteCv(key, facts) ==
  /\ pc = "request"
  /\ Cardinality(flaws(cv_file)) < MaxFlaws
  /\ \A other \in flaws(cv_file) : position(other) < position(key)
  /\ facts # IdealDocument[key]
  /\ cv_file' = [cv_file EXCEPT ![key] = facts]
  /\ UNCHANGED <<pc, results, llm_std, blind_mode, overall, pdf_opens>>

\* the uploaded file starts with the PDF header (is_probably_pdf accepts it)
\* but is corrupt: pymupdf.open raises on it
CorruptCv ==
  /\ pc = "request"
  /\ pdf_opens
  /\ pdf_opens' = FALSE
  /\ UNCHANGED <<pc, results, llm_std, blind_mode, overall, cv_file>>

\* POST / : extract_pdf_bundle raises (it has try/finally and no except, and
\* so has the handler) and the exception leaves the handler, or the report
\* is rendered
Index(blind) ==
  /\ pc = "request"
  /\ blind_mode' = blind
  /\ \/ /\ ~pdf_opens
        /\ pc' = "index_raised"
        /\ UNCHANGED results
     \/ /\ pdf_opens
        /\ pc' = "index_rendered"
        /\ results' \in score_reports(cv_file, blind)
  /\ UNCHANGED <<llm_std, overall, cv_file, pdf_opens>>

\* POST /api/validate
ApiValidate(blind) ==
  /\ pc = "request"
  /\ blind_mode' = blind
  /\ \/ /\ ~pdf_opens
        /\ pc' = "api_raised"
        /\ UNCHANGED results
     \/ /\ pdf_opens
        /\ pc' = "api_returned"
        /\ results' \in score_reports(cv_file, blind)
  /\ UNCHANGED <<llm_std, overall, cv_file, pdf_opens>>

NextRequest ==
  /\ \/ \E key \in DOMAIN DocumentFacts : \E facts \in DocumentFacts[key] : WriteCv(key, facts)
     \/ CorruptCv
     \/ \E blind \in BOOLEAN : Index(blind)
     \/ \E blind \in BOOLEAN : ApiValidate(blind)
  /\ UNCHANGED <<varsToken, varsText, varsClean, varsJobs, varsPosting, varsSeniority, varsRanking, varsLlm, varsFiles, varsUploads, varsScan, varsEmail, varsMatcher, varsGithub, varsEnrich>>

SpecRequest == InitRequest /\ [][NextRequest]_vars

\* a score report has been built
Reported == pc \in {"index_rendered", "api_returned"}

\* the request has ended, with a report or with an exception
Ended == pc \in {"index_rendered", "api_returned", "index_raised", "api_raised"}

\* C19: when the uploaded document is corrupt (extracting its text fails)
\* the request still ends with a report, in which a criterion has status
\* "error" and score 0 and all 14 criteria are reported.
ExtractionFailureStillReports ==
  (Ended /\ ~pdf_opens) =>
    /\ Reported
    /\ DOMAIN check_results(cv_file) \subseteq DOMAIN results
    /\ \E key \in DOMAIN check_results(cv_file) :
         results[key].status = "error" /\ results[key].score = 0

\* C3: every criterion result of a score report has a score in [0, 10]
\* (0..100 tenths), on every outcome branch of every check function, for
\* the LLM score, and after blind mode has adjusted photo and ol_al.
CriterionScoresInRange ==
  Reported => \A key \in Criteria : results[key].score \in 0..Tenths(10)

\* a blind-mode report with an adjusted photo entry, school results raised
\* to 7, and a criterion that took its error branch
CriterionScoresInRangeWitness ==
  /\ Reported
  /\ blind_mode
  /\ results.photo = [status |-> "info", score |-> Tenths(10)]
  /\ results.ol_al = [status |-> "warning", score |-> Tenths(7)]
  /\ \E key \in Criteria : results[key].status = "error"

\* C4: the grade of a score report agrees with its reported overall score:
\* >= 8.5 Excellent, >= 7.0 Good, >= 5.5 Fair, else Needs Improvement.
GradeAgreesWithScore ==
  Reported =>
    results.overall.grade =
      IF results.overall.score >= 85 THEN "Excellent"
      ELSE IF results.overall.score >= 70 THEN "Good"
      ELSE IF results.overall.score >= 55 THEN "Fair"
      ELSE "Needs Improvement"

(***************************************************************************)
(* get_job_recommendations applied to a CV and a job dataset               *)
(***************************************************************************)
\* most rows of the job dataset
MaxJobs == 2

\* rows of the job dataset file
JobRows ==
  { [title |-> <<"S","e","n","i","o","r"," ","E","n","g","i","n","e","e","r">>, company |-> <<"A","c","m","e">>, location |-> <<"C","o","l","o","m","b","o">>,
     description |-> <<"J","a","v","a",","," ","5"," ","y","e","a","r","s">>,
     raw_skills |-> <<"S","e","n","i","o","r",","," ","S","Q","L">>,
     closing_date |-> [format |-> "topjobs", today_or_later |-> TRUE]],
    [title |-> <<"S","e","n","i","o","r"," ","E","n","g","i","n","e","e","r">>, company |-> <<"A","c","m","e">>, location |-> <<"C","o","l","o","m","b","o">>,
     description |-> <<"P","y","t","h","o","n"," ","a","n","d"," ","A","W","S">>,
     raw_skills |-> <<>>,
     closing_date |-> [format |-> "topjobs", today_or_later |-> TRUE]],
    [title |-> <<"Q","A"," ","I","n","t","e","r","n">>, company |-> <<"A","c","m","e">>, location |-> <<"K","a","n","d","y">>,
     description |-> <<"P","l","e","a","s","e"," ","r","e","f","e","r"," ","t","h","e"," ","v","a","c","a","n","c","y">>,
     raw_skills |-> <<>>,
     closing_date |-> [format |-> "topjobs", today_or_later |-> FALSE]],
    [title |-> <<"R","e","a","c","t"," ","D","e","v","e","l","o","p","e","r">>, company |-> <<"B","e","t","a">>, location |-> <<"C","o","l","o","m","b","o">>,
     description |-> <<>>,
     raw_skills |-> <<"R","e","a","c","t","J","S","|","J","S","|","I","n","t","e","r","n">>,
     closing_date |-> [format |-> "other", today_or_later |-> TRUE]],
    [title |-> <<"D","e","v","e","l","o","p","e","r">>, company |-> <<"G","a","m","m","a">>, location |-> <<"G","a","l","l","e">>,
     description |-> <<"A","W","S"," ","G","C","P"," ","S","Q","L"," ","P","H","P"," ","G","i","t"," ","G","o"," ","V","u","e"," ","J","a","v","a"," ","R","u","b","y">>,
     raw_skills |-> <<>>,
     closing_date |-> [format |-> "topjobs", today_or_later |-> TRUE]] }

\* CVs: the text of the document and, of the results index has built when it
\* calls get_job_recommendations, the entries build_user_skills_from_cv reads
\* and the overall score (in tenths), grade and dimension scores
CvCases ==
  { [cv_text |-> <<"S","e","n","i","o","r",","," ","6"," ","y","e","a","r","s",":"," ","J","a","v","a",","," ","A","W","S">>,
     results |-> [keywords |-> [found_keywords |-> <<<<"J","a","v","a">>, <<"S","e","n","i","o","r">>, <<"F","o","o"," ","B","a","r">>>>],
                  github |-> [message |-> <<"N","o"," ","G","i","t","H","u","b"," ","l","i","n","k","s"," ","f","o","u","n","d",".">>],
                  overall |-> [score |-> 72, grade |-> "Good"],
                  dimensions |-> [impact |-> 70, brevity |-> 100, style |-> 64, skills |-> 80]]],
    [cv_text |-> <<"I","n","t","e","r","n","."," ","S","k","i","l","l","s",":"," ","R","e","a","c","t","J","S",","," ","J","S">>,
     results |-> [keywords |-> [found_keywords |-> <<<<"i","n","t","e","r","n">>, <<"J","S">>>>],
                  github |-> [message |-> <<"R","e","a","c","t"," ","p","r","o","j","e","c","t","s">>],
                  overall |-> [score |-> 56, grade |-> "Fair"],
                  dimensions |-> [impact |-> 45, brevity |-> 75, style |-> 80, skills |-> 60]]],
    [cv_text |-> <<"3"," ","y","e","a","r","s"," ","o","f"," ","R","e","a","c","t"," ","a","n","d"," ","D","o","c","k","e","r">>,
     results |-> [keywords |-> [found_keywords |-> <<<<"r","e","a","c","t">>, <<" ","D","o","c","k","e","r"," ">>>>],
                  github |-> [message |-> <<>>],
                  overall |-> [score |-> 88, grade |-> "Excellent"],
                  dimensions |-> [impact |-> 90, brevity |-> 100, style |-> 85, skills |-> 84]]],
    [cv_text |-> <<"T","e","a","m","w","o","r","k"," ","a","n","d"," ","l","e","a","d","e","r","s","h","i","p">>,
     results |-> [keywords |-> [found_keywords |-> <<<<"T","e","a","m","w","o","r","k">>>>],
                  github |-> [message |-> <<>>],
                  overall |-> [score |-> 41, grade |-> "Needs Improvement"],
                  dimensions |-> [impact |-> 20, brevity |-> 75, style |-> 50, skills |-> 12]]] }

\* location_filter values
LocationFilters == { <<"A","l","l">>, <<"c","o","l","o","m","b","o">> }

\* top_n values
TopNSamples == {1, 5}

\* cosine similarities of a job text and the query, in hundredths
SimSamples == {0, 50, 100}

\* build_combined_fields and classify_job_level on each row of JobRows
COMBINED == [row \in JobRows |-> combined_fields(row)]

\* build_user_skills_from_cv and estimate_cv_level on each CV of CvCases
CV_SKILLS == [c \in CvCases |-> build_user_skills_from_cv(c.results, c.cv_text)]

CV_LEVEL == [c \in CvCases |-> estimate_cv_level(c.cv_text)]

\* load_job_data on a readable dataset; index is the row's index label
load_job_data(rows) ==
  LET F[n \in 0..Len(rows)] ==
        IF n = 0 THEN <<>> ELSE Append(F[n - 1], [index |-> n] @@ COMBINED[rows[n]])
  IN  F[Len(rows)]

InitRecommend ==
  /\ pc = "dataset"
  /\ IdleScore /\ IdleToken /\ IdleText /\ IdleClean /\ IdleJobs /\ IdlePosting /\ IdleSeniority /\ IdleRanking /\ IdleUpload /\ IdleLlm /\ IdleFiles /\ IdleUploads /\ IdleScan /\ IdleEmail /\ IdleMatcher /\ IdleGithub /\ IdleEnrich

\* a row is added to the dataset file
AddJob(row) ==
  /\ pc = "dataset"
  /\ Len(corpus) < MaxJobs
  /\ corpus' = Append(corpus, row)
  /\ UNCHANGED <<pc, results, cv_text, cv_level, df, user_skills, jobs, varsRanking>>

\* a CV has been validated: its text and results are at hand
ValidateCv(c) ==
  /\ pc = "dataset"
  /\ results' = c.results
  /\ cv_text' = c.cv_text
  /\ pc' = "validated"
  /\ UNCHANGED <<corpus, cv_level, df, user_skills, jobs, varsRanking>>

GetJobRecommendations(location_filter, n, mode, readable, sims) ==
  /\ pc = "validated"
  /\ LET c      == CHOOSE x \in CvCases : x.results = results /\ x.cv_text = cv_text
         loaded == load_job_data(corpus)
         skills == CV_SKILLS[c]
         level  == CV_LEVEL[c]
     IN  IF ~readable
           THEN /\ pc' = "unreadable"
                /\ jobs' = <<>>
                /\ UNCHANGED <<results, df, user_skills, cv_level, scored>>
           ELSE \E out \in recommendations(loaded, skills, level, location_filter,
                                           n, mode, sims) :
                  /\ pc' = out.at
                  /\ jobs' = out.jobs
                  /\ scored' = IF out.at = "ranked" THEN out.scored ELSE scored
                  /\ df' = loaded
                  /\ user_skills' = IF out.at = "no_data" THEN user_skills ELSE skills
                  /\ cv_level' = IF out.at \in {"no_job_at_level", "ranked"} THEN level ELSE cv_level
                  /\ results' = IF out.at = "ranked"
                                  THEN [matching_skills_used |-> skills] @@ results
                                  ELSE results
  /\ top_n' = n
  /\ UNCHANGED <<corpus, cv_text>>

NextRecommend ==
  /\ \/ \E row \in JobRows : AddJob(row)
     \/ \E c \in CvCases : ValidateCv(c)
     \/ \E location_filter \in LocationFilters, n \in TopNSamples,
           mode \in {"filter", "loose"}, readable \in BOOLEAN,
           sims \in [1..Len(corpus) -> SimSamples] :
          GetJobRecommendations(location_filter, n, mode, readable, sims)
  /\ UNCHANGED <<llm_std, blind_mode, overall, cv_file, varsToken, varsClean,
                 words, found, refound, varsPosting, varsSeniority, varsUpload, varsLlm, varsFiles, varsUploads, varsScan, varsEmail, varsMatcher, varsGithub, varsEnrich>>

SpecRecommend == InitRecommend /\ [][NextRecommend]_vars

\* a list of canonical skills: every entry is of the known vocabulary, is
\* lowercase, is what normalize_token makes of itself, and is no
\* employment-level word
IsSkillSet(xs) ==
  \A i \in DOMAIN xs :
    /\ xs[i] \in KNOWN_TECH_SKILLS
    /\ xs[i] \notin GENERIC_EMPLOYMENT_WORDS
    /\ lower(xs[i]) = xs[i]
    /\ normalize_token(xs[i]) = xs[i]

\* C9: in the recommender the candidate skill list built from the CV, the
\* job_skill_list of every job of the loaded dataset, and the matched and
\* missing skill lists of every returned job hold only entries of
\* KNOWN_TECH_SKILLS, lowercase and normalized, and never an
\* employment-level word or a raw token of the inputs.
SkillSetInvariant ==
  /\ pc \in {"no_user_skills", "no_job_in_location", "no_active_job", "no_job_at_level", "ranked"}
       => IsSkillSet(user_skills)
  /\ pc \in {"no_data", "no_user_skills", "no_job_in_location", "no_active_job",
             "no_job_at_level", "ranked"}
       => \A i \in DOMAIN df : IsSkillSet(df[i].job_skill_list)
  /\ pc = "ranked"
       => \A j \in DOMAIN jobs : /\ IsSkillSet(jobs[j].matched_skills)
                                 /\ IsSkillSet(jobs[j].missing_skills)

\* a ranked answer with a job that has matched and missing skills, for a CV
\* whose keywords hold an employment-level word and a token outside the
\* vocabulary, from a dataset whose raw skills text holds one too
SkillSetInvariantWitness ==
  /\ pc = "ranked"
  /\ \E j \in DOMAIN jobs : jobs[j].matched_skills # <<>> /\ jobs[j].missing_skills # <<>>
  /\ \E k \in Elems(results.keywords.found_keywords) :
       normalize_token(k) \in GENERIC_EMPLOYMENT_WORDS
  /\ \E k \in Elems(results.keywords.found_keywords) :
       normalize_token(k) \notin KNOWN_TECH_SKILLS \cup GENERIC_EMPLOYMENT_WORDS
  /\ \E i \in DOMAIN corpus :
       \E w \in GENERIC_EMPLOYMENT_WORDS : Contains(w, lower(corpus[i].raw_skills))
  /\ user_skills # <<>>

\* rows of the ranked frame with the title and company of a returned job
same_posting(job) ==
  {k \in DOMAIN scored : scored[k].title = job.title /\ scored[k].company = job.company}

\* a.final_score <= b.final_score
score_le(a, b) == a.final_score.n * b.final_score.d <= b.final_score.n * a.final_score.d

\* C15: the returned list is in non-increasing order of match percentage,
\* no two of its entries have the same (title, company), the entry of a
\* (title, company) carries the highest final score of the ranked rows with
\* that title and company, and the list has at most top_n entries.
RankedListOrdered ==
  pc = "ranked" =>
    /\ \A i, j \in DOMAIN jobs :
         i < j => jobs[i].match_percentage >= jobs[j].match_percentage
    /\ \A i, j \in DOMAIN jobs :
         i # j => <<jobs[i].title, jobs[i].company>> # <<jobs[j].title, jobs[j].company>>
    /\ \A j \in DOMAIN jobs :
         \E k \in same_posting(jobs[j]) :
           /\ \A k2 \in same_posting(jobs[j]) : score_le(scored[k2], scored[k])
           /\ \E p \in rounded(scored[k].final_score.n, scored[k].final_score.d) :
                jobs[j].match_percentage = Min2(1000, Max2(0, p))
    /\ Len(jobs) <= top_n

\* a ranking of two rows with the same title and company and different
\* final scores
RankedListOrderedWitness ==
  /\ pc = "ranked"
  /\ Len(jobs) = 1
  /\ \E k, k2 \in same_posting(jobs[1]) : ~score_le(scored[k], scored[k2])

ReturnPoints ==
  {"unreadable", "no_data", "no_user_skills", "no_job_in_location",
   "no_active_job", "no_job_at_level", "ranked"}

\* the CV whose text the request has extracted
validated_cv == CHOOSE c \in CvCases : c.cv_text = cv_text

\* C18: when the job dataset is missing, unreadable or empty,
\* get_job_recommendations returns an empty list at its first return
\* statement, and whatever the dataset is, the criterion results, overall
\* score, grade and dimension scores the request has computed are after the
\* call what they were before it.
EmptyCorpusReturnsNoJobs ==
  pc \in ReturnPoints =>
    /\ (pc = "unreadable" \/ corpus = <<>>) <=> pc \in {"unreadable", "no_data"}
    /\ pc \in {"unreadable", "no_data"} => jobs = <<>>
    /\ \A key \in DOMAIN validated_cv.results : results[key] = validated_cv.results[key]

\* the dataset is empty and the call has returned
EmptyCorpusReturnsNoJobsWitness ==
  /\ pc = "no_data"
  /\ corpus = <<>>
  /\ jobs = <<>>
  /\ results.overall = validated_cv.results.overall

\* C17: ranking is a pure function of the dataset and the query: a call of
\* get_job_recommendations changes nothing that the caller or a later call
\* can observe; its arguments results and cv_text and the dataset are after
\* the call what they were before it.
RecommendationsArePure ==
  [][pc = "validated" =>
       /\ results' = results
       /\ cv_text' = cv_text
       /\ corpus' = corpus]_vars

\* rows of the loaded dataset with the title and company of a returned job
rows_of(job) ==
  {k \in DOMAIN df : df[k].title = job.title /\ df[k].company = job.company}

\* C16: for every returned job matched_skills is exactly the intersection
\* of the job's derived skill set with the candidate's skill set and
\* missing_skills exactly the rest of the job's derived skill set, whatever
\* the size of the job's skill set.
MatchedMissingPartition ==
  pc = "ranked" =>
    \A j \in DOMAIN jobs :
      \E k \in rows_of(jobs[j]) :
        /\ Elems(jobs[j].matched_skills) = Elems(df[k].job_skill_list) \cap Elems(user_skills)
        /\ Elems(jobs[j].missing_skills) = Elems(df[k].job_skill_list) \ Elems(user_skills)

\* xs is the first 8 entries, or all if there are fewer, of S in ascending order
IsFirstEightOf(xs, S) ==
  /\ Elems(xs) \subseteq S
  /\ Len(xs) = Min2(8, Cardinality(S))
  /\ \A i \in 1..(Len(xs) - 1) : str_less(xs[i], xs[i + 1])
  /\ \A x \in S \ Elems(xs) : \A i \in DOMAIN xs : str_less(xs[i], x)

\* C16 (amended): for every returned job matched_skills is the first 8, in
\* ascending order, of the intersection of the job's derived skill set with
\* the candidate's skill set, and missing_skills the first 8 of the rest of
\* the job's derived skill set; the two lists are disjoint, and they cover
\* the job's skill set when neither part has more than 8 entries.
MatchedMissingFirstEight ==
  pc = "ranked" =>
    \A j \in DOMAIN jobs :
      \E k \in rows_of(jobs[j]) :
        LET job_set == Elems(df[k].job_skill_list)
            cv_set  == Elems(user_skills)
        IN  /\ IsFirstEightOf(jobs[j].matched_skills, job_set \cap cv_set)
            /\ IsFirstEightOf(jobs[j].missing_skills, job_set \ cv_set)
            /\ Elems(jobs[j].matched_skills) \cap Elems(jobs[j].missing_skills) = {}

\* a returned job with more than 8 missing skills, and one with matched and
\* missing skills
MatchedMissingFirstEightWitness ==
  /\ pc = "ranked"
  /\ \E j \in DOMAIN jobs : \E k \in rows_of(jobs[j]) :
       /\ Cardinality(Elems(df[k].job_skill_list) \ Elems(user_skills)) > 8
       /\ Len(jobs[j].missing_skills) = 8

(***************************************************************************)
(* classify_job_level applied to a job posting                             *)
(***************************************************************************)
\* most phrases of a description
MaxDescPhrases == 2

\* the phrases of a posting, each with the keyword class it carries and the
\* number of years of experience it requires (-1: it requires none)
JobPhrases ==
  { [w |-> <<"I","n","t","e","r","n">>,                  kind |-> "intern", years |-> -1],
    [w |-> <<"J","u","n","i","o","r">>,                  kind |-> "junior", years |-> -1],
    [w |-> <<"S","e","n","i","o","r">>,                  kind |-> "senior", years |-> -1],
    [w |-> <<"T","e","a","m"," ","L","e","a","d">>,               kind |-> "senior", years |-> -1],
    [w |-> <<"D","e","v","e","l","o","p","e","r">>,               kind |-> "none",   years |-> -1],
    [w |-> <<"5","+"," ","y","e","a","r","s"," ","e","x","p","e","r","i","e","n","c","e">>,     kind |-> "none",   years |-> 5],
    [w |-> <<"2"," ","t","o"," ","5"," ","y","e","a","r","s"," ","e","x","p","e","r","i","e","n","c","e">>, kind |-> "none",   years |-> 2],
    [w |-> <<"E","x","p","e","r","i","e","n","c","e",":"," ","4">>,           kind |-> "none",   years |-> 4],
    [w |-> <<"1"," ","y","e","a","r"," ","o","f"," ","e","x","p","e","r","i","e","n","c","e">>,    kind |-> "none",   years |-> 1] }

\* the years the first phrase of the posting that requires experience asks
\* for, -1 when no phrase does
RequiredYears ==
  LET req == SelectSeq(words, LAMBDA e : e.years >= 0)
  IN  IF req = <<>> THEN -1 ELSE req[1].years

InitJobLevel ==
  /\ pc = "posting"
  /\ IdleScore /\ IdleToken /\ IdleText /\ IdleClean /\ IdleJobs /\ IdlePosting /\ IdleSeniority /\ IdleRanking /\ IdleUpload /\ IdleLlm /\ IdleFiles /\ IdleUploads /\ IdleScan /\ IdleEmail /\ IdleMatcher /\ IdleGithub /\ IdleEnrich

\* the posting gets its title
WriteTitle(e) ==
  /\ pc = "posting"
  /\ words = <<>>
  /\ words' = <<e>>
  /\ job_title' = e.w
  /\ UNCHANGED <<pc, job_desc, job_level>>

\* a phrase is added to the description
WriteDescription(e) ==
  /\ pc = "posting"
  /\ job_title # <<>>
  /\ Len(words) < 1 + MaxDescPhrases
  /\ words' = Append(words, e)
  /\ job_desc' = IF job_desc = <<>> THEN e.w ELSE job_desc \o <<" ">> \o e.w
  /\ UNCHANGED <<pc, job_title, job_level>>

ClassifyJobLevel ==
  /\ pc = "posting"
  /\ job_level' = classify_job_level(job_title, job_desc)
  /\ pc' = "classified"
  /\ UNCHANGED <<words, job_title, job_desc>>

NextJobLevel ==
  /\ \/ \E e \in JobPhrases : WriteTitle(e)
     \/ \E e \in JobPhrases : WriteDescription(e)
     \/ ClassifyJobLevel
  /\ UNCHANGED <<varsScore, varsToken, varsClean, varsJobs, cv_text, found, refound, cv_level, varsSeniority, varsRanking, varsUpload, varsLlm, varsFiles, varsUploads, varsScan, varsEmail, varsMatcher, varsGithub, varsEnrich>>

SpecJobLevel == InitJobLevel /\ [][NextJobLevel]_vars

\* C11: classify_job_level reads title and description together and is an
\* ordered cascade: an intern or junior keyword gives Intern/Junior;
\* otherwise the years the (first) experience requirement asks for give
\* Senior when >= 5 and Mid when >= 2; otherwise a senior-title keyword
\* gives Senior; otherwise Intern/Junior.  A requirement of 2 to 4 years
\* gives Mid even next to a senior-title keyword.
JobLevelCascade ==
  pc = "classified" =>
    job_level = IF HasKind("intern") \/ HasKind("junior") THEN "intern_junior"
                ELSE IF RequiredYears >= 5 THEN "senior"
                ELSE IF RequiredYears >= 2 THEN "mid"
                ELSE IF HasKind("senior") THEN "senior"
                ELSE "intern_junior"

\* a posting with a senior title that asks for 2 to 4 years is Mid
JobLevelCascadeWitness ==
  /\ pc = "classified"
  /\ words # <<>> /\ words[1].kind = "senior"
  /\ RequiredYears \in 2..4
  /\ job_desc # <<>>
  /\ job_level = "mid"

(***************************************************************************)
(* apply_seniority_handling applied to the job rows of a candidate         *)
(***************************************************************************)
\* most rows of the frame handed to apply_seniority_handling
MaxPostings == 2

\* title and description of the postings
Postings ==
  { [title |-> <<"S","e","n","i","o","r"," ","B","a","c","k","e","n","d"," ","E","n","g","i","n","e","e","r">>, description |-> <<>>],
    [title |-> <<"S","e","n","i","o","r"," ","B","a","c","k","e","n","d"," ","E","n","g","i","n","e","e","r">>, description |-> <<"M","e","n","t","o","r"," ","j","u","n","i","o","r"," ","s","t","a","f","f">>],
    [title |-> <<"S","e","n","i","o","r"," ","B","a","c","k","e","n","d"," ","E","n","g","i","n","e","e","r">>, description |-> <<"3"," ","y","e","a","r","s"," ","e","x","p","e","r","i","e","n","c","e">>],
    [title |-> <<"S","e","n","i","o","r"," ","B","a","c","k","e","n","d"," ","E","n","g","i","n","e","e","r">>, description |-> <<"8"," ","y","e","a","r","s"," ","e","x","p","e","r","i","e","n","c","e">>],
    [title |-> <<"Q","A"," ","I","n","t","e","r","n">>,               description |-> <<"P","l","e","a","s","e"," ","r","e","f","e","r"," ","t","h","e"," ","v","a","c","a","n","c","y">>],
    [title |-> <<"D","e","v","e","l","o","p","e","r">>,               description |-> <<"2","+"," ","y","e","a","r","s"," ","e","x","p","e","r","i","e","n","c","e">>],
    [title |-> <<"D","e","v","e","l","o","p","e","r">>,               description |-> <<>>] }

Levels == {"intern_junior", "mid", "senior"}

InitSeniority ==
  /\ pc = "postings"
  /\ IdleScore /\ IdleToken /\ IdleText /\ IdleClean /\ IdleJobs /\ IdlePosting /\ IdleSeniority /\ IdleRanking /\ IdleUpload /\ IdleLlm /\ IdleFiles /\ IdleUploads /\ IdleScan /\ IdleEmail /\ IdleMatcher /\ IdleGithub /\ IdleEnrich

\* build_combined_fields gives a row of the frame its desc_clean
AddPosting(p) ==
  /\ pc = "postings"
  /\ Len(corpus) < MaxPostings
  /\ corpus' = Append(corpus, [title |-> p.title, description |-> p.description,
                               desc_clean |-> clean_desc(p.description)])
  /\ UNCHANGED <<pc, df, cv_level, seniority_mode>>

\* df = apply_seniority_handling(df, cv_level=cv_level, mode=seniority_mode)
ApplySeniorityHandling(level, mode) ==
  /\ pc = "postings"
  /\ df' = apply_seniority_handling(corpus, level, mode)
  /\ cv_level' = level
  /\ seniority_mode' = mode
  /\ pc' = "filtered"
  /\ UNCHANGED corpus

NextSeniority ==
  /\ \/ \E p \in Postings : AddPosting(p)
     \/ \E level \in Levels, mode \in {"filter", "loose"} : ApplySeniorityHandling(level, mode)
  /\ UNCHANGED <<varsScore, varsToken, varsClean, varsPosting,
                 words, cv_text, found, refound, user_skills, jobs, varsRanking, varsUpload, varsLlm, varsFiles, varsUploads, varsScan, varsEmail, varsMatcher, varsGithub, varsEnrich>>

SpecSeniority == InitSeniority /\ [][NextSeniority]_vars

SeniorBackendEngineer == <<"S","e","n","i","o","r"," ","B","a","c","k","e","n","d"," ","E","n","g","i","n","e","e","r">>

\* C12: a posting titled "Senior Backend Engineer" is classified Senior
\* whatever its description says, and in strict mode it is not among the
\* jobs kept for an Intern/Junior candidate.
SeniorTitleIsSenior ==
  pc = "filtered" =>
    \A i \in DOMAIN df :
      df[i].title = SeniorBackendEngineer
        => /\ df[i].job_level = "senior"
           /\ ~(seniority_mode = "filter" /\ cv_level = "intern_junior")

\* the rows of df without the job_level column
input_columns(rows) ==
  [i \in DOMAIN rows |-> [title |-> rows[i].title, description |-> rows[i].description,
                          desc_clean |-> rows[i].desc_clean]]

\* what a description says: the keyword class it carries and the years of
\* experience it requires (-1: none)
DescriptionSays ==
  (<<>> :> [kind |-> "none", years |-> -1])
  @@ (<<"M","e","n","t","o","r"," ","j","u","n","i","o","r"," ","s","t","a","f","f">> :> [kind |-> "junior", years |-> -1])
  @@ (<<"3"," ","y","e","a","r","s"," ","e","x","p","e","r","i","e","n","c","e">> :> [kind |-> "none", years |-> 3])
  @@ (<<"8"," ","y","e","a","r","s"," ","e","x","p","e","r","i","e","n","c","e">> :> [kind |-> "none", years |-> 8])
  @@ (<<"P","l","e","a","s","e"," ","r","e","f","e","r"," ","t","h","e"," ","v","a","c","a","n","c","y">> :> [kind |-> "none", years |-> -1])
  @@ (<<"2","+"," ","y","e","a","r","s"," ","e","x","p","e","r","i","e","n","c","e">> :> [kind |-> "none", years |-> 2])

\* C12 (amended): a posting titled "Senior Backend Engineer" whose
\* description carries no intern or junior keyword and requires no
\* experience of less than 5 years is Senior: strict mode drops it for an
\* Intern/Junior candidate and keeps it, as Senior, for a Senior candidate.
SeniorTitleIsSeniorUnlessOverridden ==
  pc = "filtered" /\ seniority_mode = "filter" =>
    \A i \in DOMAIN corpus :
      /\ corpus[i].title = SeniorBackendEngineer
      /\ DescriptionSays[corpus[i].description].kind = "none"
      /\ DescriptionSays[corpus[i].description].years \notin 0..4
      => /\ cv_level = "intern_junior"
              => \A j \in DOMAIN df : input_columns(df)[j] # corpus[i]
         /\ cv_level = "senior"
              => \E j \in DOMAIN df : /\ input_columns(df)[j] = corpus[i]
                                      /\ df[j].job_level = "senior"

\* strict mode for an Intern/Junior candidate drops such a posting and
\* keeps another
SeniorTitleIsSeniorWitness ==
  /\ pc = "filtered" /\ seniority_mode = "filter" /\ cv_level = "intern_junior"
  /\ df # <<>>
  /\ \E i \in DOMAIN corpus :
       /\ corpus[i].title = SeniorBackendEngineer
       /\ DescriptionSays[corpus[i].description].kind = "none"
       /\ DescriptionSays[corpus[i].description].years \notin 0..4

\* the levels the claim allows a candidate level in loose mode
AllowedLevels ==
  [intern_junior |-> {"intern_junior", "mid"},
   mid           |-> {"intern_junior", "mid", "senior"},
   senior        |-> {"mid", "senior"}]

\* the level of a posting, from what its title and description say
PostingLevel(title, description) ==
  LET says == DescriptionSays[description]
  IN  IF title = <<"Q","A"," ","I","n","t","e","r","n">> \/ says.kind = "junior" THEN "intern_junior"
      ELSE IF says.years >= 5 THEN "senior"
      ELSE IF says.years >= 2 THEN "mid"
      ELSE IF title = SeniorBackendEngineer THEN "senior"
      ELSE "intern_junior"

\* C13: apply_seniority_handling keeps, in input order, exactly the rows
\* whose level is the candidate's level (strict mode) or one of the levels
\* allowed for the candidate's level (loose mode: Intern/Junior -> Intern/
\* Junior and Mid, Mid -> all three, Senior -> Mid and Senior); the rows it
\* returns are rows of the input with their fields as they were.
SeniorityHandlingKeepsAllowed ==
  pc = "filtered" =>
    LET level(r) == PostingLevel(r.title, r.description)
        Keep(r) == IF seniority_mode = "loose" THEN level(r) \in AllowedLevels[cv_level]
                   ELSE level(r) = cv_level
    IN  /\ input_columns(df) = SelectSeq(corpus, Keep)
        /\ \A i \in DOMAIN df : df[i].job_level = level(df[i])

\* a frame with a kept and a dropped row, in loose mode
SeniorityHandlingKeepsAllowedWitness ==
  /\ pc = "filtered"
  /\ seniority_mode = "loose"
  /\ df # <<>>
  /\ Len(df) < Len(corpus)

(***************************************************************************)
(* filter_active_jobs applied to the closing dates of a frame              *)
(***************************************************************************)
\* most rows of the frame handed to filter_active_jobs
MaxDated == 3

\* closing dates: "topjobs" is written as "%a %b %d %Y", "other" in another
\* format pd.to_datetime reads, "bad" in none
ClosingDates ==
  { [format |-> "topjobs", today_or_later |-> TRUE],
    [format |-> "topjobs", today_or_later |-> FALSE],
    [format |-> "other",   today_or_later |-> TRUE],
    [format |-> "other",   today_or_later |-> FALSE],
    [format |-> "bad",     today_or_later |-> FALSE] }

InitActive ==
  /\ pc = "dates"
  /\ IdleScore /\ IdleToken /\ IdleText /\ IdleClean /\ IdleJobs /\ IdlePosting /\ IdleSeniority /\ IdleRanking /\ IdleUpload /\ IdleLlm /\ IdleFiles /\ IdleUploads /\ IdleScan /\ IdleEmail /\ IdleMatcher /\ IdleGithub /\ IdleEnrich

AddDated(d) ==
  /\ pc = "dates"
  /\ Len(corpus) < MaxDated
  /\ corpus' = Append(corpus, [index |-> Len(corpus) + 1, closing_date |-> d])
  /\ UNCHANGED <<pc, df>>

FilterActiveJobs ==
  /\ pc = "dates"
  /\ df' = filter_active_jobs(corpus)
  /\ pc' = "active"
  /\ UNCHANGED corpus

NextActive ==
  /\ \/ \E d \in ClosingDates : AddDated(d)
     \/ FilterActiveJobs
  /\ UNCHANGED <<varsScore, varsToken, varsText, varsClean, varsPosting, varsSeniority,
                 user_skills, jobs, varsRanking, varsUpload, varsLlm, varsFiles, varsUploads, varsScan, varsEmail, varsMatcher, varsGithub, varsEnrich>>

SpecActive == InitActive /\ [][NextActive]_vars

\* C14: filter_active_jobs keeps a posting exactly when its own closing
\* date is written in a format that parses and is today or later, whatever
\* the formats of the other postings' dates are.
ActiveDecidedPerPosting ==
  pc = "active" =>
    df = SelectSeq(corpus, LAMBDA r : /\ r.closing_date.format \in {"topjobs", "other"}
                                      /\ r.closing_date.today_or_later)

(***************************************************************************)
(* validate_with_llm on the replies of the LLM                             *)
(***************************************************************************)
\* longest list of answers in a reply
MaxReplyItems == 2

\* the items of a reply: an object whose "yes" is true, false or the text
\* "true", and a value that is no object
ReplyItems == {"yes_true", "yes_false", "yes_text", "not_dict"}

JsonForms == {"list", "no_answers", "null_answers", "answers"}

InitLlm ==
  /\ pc = "reply"
  /\ groq_api_key = TRUE
  /\ raw = [form |-> "empty", fenced |-> FALSE, prose |-> FALSE, items |-> <<>>]
  /\ llm_result = None
  /\ IdleScore /\ IdleToken /\ IdleText /\ IdleClean /\ IdleJobs /\ IdlePosting /\ IdleSeniority /\ IdleRanking /\ IdleUpload /\ IdleFiles /\ IdleUploads /\ IdleScan /\ IdleEmail /\ IdleMatcher /\ IdleGithub /\ IdleEnrich

\* no API key is configured
RemoveApiKey ==
  /\ pc = "reply"
  /\ groq_api_key
  /\ groq_api_key' = FALSE
  /\ UNCHANGED <<pc, raw, llm_result>>

\* the LLM replies with prose or with JSON of some form
Reply(form) ==
  /\ pc = "reply"
  /\ raw.form = "empty"
  /\ raw' = [raw EXCEPT !.form = form]
  /\ UNCHANGED <<pc, groq_api_key, llm_result>>

AppendItem(item) ==
  /\ pc = "reply"
  /\ raw.form \in {"list", "answers"}
  /\ ~raw.fenced /\ ~raw.prose
  /\ Len(raw.items) < MaxReplyItems
  /\ raw' = [raw EXCEPT !.items = Append(@, item)]
  /\ UNCHANGED <<pc, groq_api_key, llm_result>>

\* the JSON comes inside ``` marks
Fence ==
  /\ pc = "reply"
  /\ raw.form \in JsonForms
  /\ ~raw.fenced /\ ~raw.prose
  /\ raw' = [raw EXCEPT !.fenced = TRUE]
  /\ UNCHANGED <<pc, groq_api_key, llm_result>>

\* the JSON comes with a sentence before and after it
AddProse ==
  /\ pc = "reply"
  /\ raw.form \in JsonForms
  /\ ~raw.prose
  /\ raw' = [raw EXCEPT !.prose = TRUE]
  /\ UNCHANGED <<pc, groq_api_key, llm_result>>

ValidateWithLlm(raised) ==
  /\ pc = "reply"
  /\ llm_result' = validate_with_llm_reply(groq_api_key, raised, raw)
  /\ pc' = "llm_returned"
  /\ UNCHANGED <<groq_api_key, raw>>

NextLlm ==
  /\ \/ RemoveApiKey
     \/ \E form \in JsonForms \cup {"text"} : Reply(form)
     \/ \E item \in ReplyItems : AppendItem(item)
     \/ Fence
     \/ AddProse
     \/ \E raised \in BOOLEAN : ValidateWithLlm(raised)
  /\ UNCHANGED <<varsScore, varsToken, varsText, varsClean, varsJobs, varsPosting,
                 varsSeniority, varsRanking, varsUpload, varsFiles, varsUploads, varsScan, varsEmail, varsMatcher, varsGithub, varsEnrich>>

SpecLlm == InitLlm /\ [][NextLlm]_vars

\* the reply is empty, cannot be parsed, or does not hold the expected
\* answers structure
Malformed(r) ==
  \/ r.form # "answers"
  \/ \E i \in DOMAIN r.items : r.items[i] = "not_dict"

\* C20: validate_with_llm never raises, and whenever the API key is missing
\* or the reply of the LLM is malformed it returns an empty result set,
\* score 0 and status "error".
LlmErrorOnMalformedOutput ==
  (pc = "llm_returned" /\ (~groq_api_key \/ Malformed(raw))) =>
    /\ llm_result.status = "error"
    /\ llm_result.results = <<>>
    /\ llm_result.score = 0

(***************************************************************************)
(* _safe_to_csv: concurrent writers of one file and a reader               *)
(***************************************************************************)
\* number of concurrent _safe_to_csv calls on the same path
MaxWriters == 2

\* number of rows of a file
MaxRows == 2

Writers == 1..MaxWriters

\* the path that is rewritten, and the name mkstemp gives writer w (unique)
Path == 0
tmp_path_of(w) == w

\* the complete file of version v: version 0 is on disk at the start,
\* version w is the frame writer w saves
Version(v) == [i \in 1..MaxRows |-> <<v, i>>]

\* the file df.to_csv writes into, were it to write into the path itself
to_csv_target_in_place(tmp_path, path) == path

\* the file df.to_csv writes into
to_csv_target(tmp_path, path) == tmp_path

\* the directory without a name
unlinked(d, name) == [n \in DOMAIN d \ {name} |-> d[n]]

InitAtomic ==
  /\ pc = "files"
  /\ inodes = (0 :> Version(0))
  /\ dir = (Path :> 0)
  /\ wpc = [w \in Writers |-> "start"]
  /\ rpc = "closed"
  /\ handle = 0
  /\ seen = <<>>
  /\ IdleScore /\ IdleToken /\ IdleText /\ IdleClean /\ IdleJobs /\ IdlePosting /\ IdleSeniority /\ IdleRanking /\ IdleUpload /\ IdleLlm /\ IdleUploads /\ IdleScan /\ IdleEmail /\ IdleMatcher /\ IdleGithub /\ IdleEnrich

\* tempfile.mkstemp(dir=dir_name, suffix=".tmp"); os.close(fd)
Mkstemp(w) ==
  /\ wpc[w] = "start"
  /\ inodes' = (w :> <<>>) @@ inodes
  /\ dir' = (tmp_path_of(w) :> w) @@ dir
  /\ wpc' = [wpc EXCEPT ![w] = "to_csv"]
  /\ UNCHANGED <<rpc, handle, seen>>

\* df.to_csv writes the next row; the file is truncated when it is opened
ToCsv(w) ==
  /\ wpc[w] \in {"to_csv", "writing"}
  /\ LET name == to_csv_target(tmp_path_of(w), Path)
         id   == dir[name]
         old  == IF wpc[w] = "to_csv" THEN <<>> ELSE inodes[id]
         new  == Append(old, Version(w)[Len(old) + 1])
     IN  /\ inodes' = [inodes EXCEPT ![id] = new]
         /\ wpc' = [wpc EXCEPT ![w] = IF Len(new) = MaxRows THEN "replace" ELSE "writing"]
  /\ UNCHANGED <<dir, rpc, handle, seen>>

\* df.to_csv raises (disk full, ...): control goes to the finally clause
ToCsvFails(w) ==
  /\ wpc[w] \in {"to_csv", "writing"}
  /\ wpc' = [wpc EXCEPT ![w] = "finally_failed"]
  /\ UNCHANGED <<inodes, dir, rpc, handle, seen>>

\* os.replace(tmp_path, path)
Replace(w) ==
  /\ wpc[w] = "replace"
  /\ dir' = unlinked([dir EXCEPT ![Path] = dir[tmp_path_of(w)]], tmp_path_of(w))
  /\ wpc' = [wpc EXCEPT ![w] = "finally"]
  /\ UNCHANGED <<inodes, rpc, handle, seen>>

\* finally: if os.path.exists(tmp_path): os.remove(tmp_path)
Finally(w) ==
  /\ wpc[w] \in {"finally", "finally_failed"}
  /\ dir' = IF tmp_path_of(w) \in DOMAIN dir THEN unlinked(dir, tmp_path_of(w)) ELSE dir
  /\ wpc' = [wpc EXCEPT ![w] = IF wpc[w] = "finally" THEN "saved" ELSE "failed"]
  /\ UNCHANGED <<inodes, rpc, handle, seen>>

\* a reader opens the path
Open ==
  /\ rpc \in {"closed", "read"}
  /\ handle' = dir[Path]
  /\ rpc' = "open"
  /\ UNCHANGED <<inodes, dir, wpc, seen>>

\* the reader reads the file it has opened
Read ==
  /\ rpc = "open"
  /\ seen' = inodes[handle]
  /\ rpc' = "read"
  /\ UNCHANGED <<inodes, dir, wpc, handle>>

NextAtomic ==
  /\ \/ \E w \in Writers : Mkstemp(w)
     \/ \E w \in Writers : ToCsv(w)
     \/ \E w \in Writers : ToCsvFails(w)
     \/ \E w \in Writers : Replace(w)
     \/ \E w \in Writers : Finally(w)
     \/ Open
     \/ Read
  /\ UNCHANGED <<pc, varsScore, varsToken, varsText, varsClean, varsJobs, varsPosting,
                 varsSeniority, varsRanking, varsUpload, varsLlm, varsUploads, varsScan, varsEmail, varsMatcher, varsGithub, varsEnrich>>

SpecAtomic == InitAtomic /\ [][NextAtomic]_vars

\* the versions a reader may see: the one on disk at the start and those of
\* the writers that got as far as os.replace
Replaced == {w \in Writers : wpc[w] \in {"finally", "saved"}}

\* C21: while _safe_to_csv rewrites a file, the path holds, and a reader
\* that opened it at any moment reads, either the complete previous contents
\* or the complete contents of a writer that has replaced it, never a part
\* of a file; when every write has failed the path keeps the previous
\* contents, and no temporary file is left behind by a finished call.
AtomicWrite ==
  /\ inodes[dir[Path]] \in {Version(0)} \cup {Version(w) : w \in Replaced}
  /\ rpc = "read" => seen \in {Version(v) : v \in {0} \cup Writers}
  /\ (\A w \in Writers : wpc[w] = "failed") => inodes[dir[Path]] = Version(0)
  /\ \A w \in Writers : wpc[w] \in {"saved", "failed"} => tmp_path_of(w) \notin DOMAIN dir

\* a reader has read the file a writer saved while another writer has
\* written a part of its temporary file
AtomicWriteWitness ==
  /\ rpc = "read"
  /\ \E w \in Writers :
       /\ seen = Version(w)
       /\ \E other \in Writers \ {w} :
            wpc[other] = "writing" /\ Len(inodes[other]) \in 1..(MaxRows - 1)

(***************************************************************************)
(* Concurrent upload requests: index and api_validate                      *)
(***************************************************************************)
\* number of concurrent upload requests
MaxRequests == 2

\* latest arrival time, in seconds
MaxSecond == 1

Requests == 1..MaxRequests

\* secure_filename(file.filename) of the uploads
UploadNames == {"cv.pdf", "resume.pdf"}

\* temp_name = f"{int(time.time())}_{filename}" with a request number in it
temp_name_per_request(r, second, filename) == <<second, filename, r>>

\* temp_name = f"{int(time.time())}_{filename}"
temp_name(r, second, filename) == <<second, filename, 0>>

NoDocument == 0
FileMissing == -1

InitUploads ==
  /\ pc = "serving"
  /\ upload_dir = <<>>
  /\ rq = [r \in Requests |-> [at |-> "arrived", filepath |-> <<0, "", 0>>,
                               bundle |-> NoDocument, evaluated |-> NoDocument]]
  /\ IdleScore /\ IdleToken /\ IdleText /\ IdleClean /\ IdleJobs /\ IdlePosting /\ IdleSeniority /\ IdleRanking /\ IdleUpload /\ IdleLlm /\ IdleFiles /\ IdleScan /\ IdleEmail /\ IdleMatcher /\ IdleGithub /\ IdleEnrich

\* file.save(filepath): the document of request r is written to its
\* temporary path, over whatever file is there
FileSave(r, second, filename) ==
  /\ rq[r].at = "arrived"
  /\ LET filepath == temp_name(r, second, filename)
     IN  /\ upload_dir' = (filepath :> r) @@ upload_dir
         /\ rq' = [rq EXCEPT ![r].at = "saved", ![r].filepath = filepath]

\* extract_pdf_bundle(filepath): pymupdf.open raises when the file is gone
ExtractPdfBundle(r) ==
  /\ rq[r].at = "saved"
  /\ IF rq[r].filepath \in DOMAIN upload_dir
       THEN rq' = [rq EXCEPT ![r].at = "extracted", ![r].bundle = upload_dir[rq[r].filepath]]
       ELSE rq' = [rq EXCEPT ![r].at = "raising", ![r].bundle = FileMissing]
  /\ UNCHANGED upload_dir

\* the evaluators that open filepath themselves (check_formatting_quality,
\* check_skills_separation, get_markdown_cached)
Evaluate(r) ==
  /\ rq[r].at = "extracted"
  /\ rq' = [rq EXCEPT ![r].at = "evaluated",
                      ![r].evaluated = IF rq[r].filepath \in DOMAIN upload_dir
                                         THEN upload_dir[rq[r].filepath]
                                         ELSE FileMissing]
  /\ UNCHANGED upload_dir

\* finally: if os.path.exists(filepath): os.remove(filepath)
RemoveUpload(r) ==
  /\ rq[r].at \in {"evaluated", "raising"}
  /\ upload_dir' = [p \in DOMAIN upload_dir \ {rq[r].filepath} |-> upload_dir[p]]
  /\ rq' = [rq EXCEPT ![r].at = IF rq[r].at = "evaluated" THEN "reported" ELSE "raised"]

NextUploads ==
  /\ \/ \E r \in Requests, second \in 0..MaxSecond, filename \in UploadNames :
          FileSave(r, second, filename)
     \/ \E r \in Requests : ExtractPdfBundle(r)
     \/ \E r \in Requests : Evaluate(r)
     \/ \E r \in Requests : RemoveUpload(r)
  /\ UNCHANGED <<pc, varsScore, varsToken, varsText, varsClean, varsJobs, varsPosting,
                 varsSeniority, varsRanking, varsUpload, varsLlm, varsFiles, varsScan, varsEmail, varsMatcher, varsGithub, varsEnrich>>

SpecUploads == InitUploads /\ [][NextUploads]_vars

\* request r has saved its upload and has not yet removed it
Processing(r) == rq[r].at \in {"saved", "extracted", "evaluated"}

\* C22: concurrent upload requests are independent, for any file names and
\* arrival times: the temporary file of a request that is being processed
\* exists and holds that request's document, what a request has extracted
\* and evaluated is its own document, and no request ends with an exception.
RequestsAreIndependent ==
  \A r \in Requests :
    /\ Processing(r) =>
         rq[r].filepath \in DOMAIN upload_dir /\ upload_dir[rq[r].filepath] = r
    /\ rq[r].bundle \in {NoDocument, r}
    /\ rq[r].evaluated \in {NoDocument, r}
    /\ rq[r].at # "raised"

(***************************************************************************)
(* The skills scan of check_skills_separation (Task 06), line by line      *)
(***************************************************************************)
\* longest CV, in lines
MaxLines == 4

\* lines of a CV; kind says what the line is: a header of the generic,
\* technical or soft skills section, a stop header, a short line with a stop
\* word that mentions "skill", or a line of items; tech and soft are the
\* items of the line that name a technology and a soft skill
SkillLines ==
  {
    [text |-> <<"S","k","i","l","l","s">>, kind |-> "mixed_header",
     tech |-> {}, soft |-> {}],
    [text |-> <<"T","e","c","h","n","i","c","a","l"," ","S","k","i","l","l","s">>, kind |-> "tech_header",
     tech |-> {}, soft |-> {}],
    [text |-> <<"S","o","f","t"," ","S","k","i","l","l","s">>, kind |-> "soft_header",
     tech |-> {}, soft |-> {}],
    [text |-> <<"E","d","u","c","a","t","i","o","n">>, kind |-> "stop",
     tech |-> {}, soft |-> {}],
    [text |-> <<"P","y","t","h","o","n",","," ","T","e","a","m","w","o","r","k">>, kind |-> "items",
     tech |-> {<<"P","y","t","h","o","n">>}, soft |-> {<<"T","e","a","m","w","o","r","k">>}],
    [text |-> <<"-"," ","L","e","a","d","e","r","s","h","i","p"," ","|"," ","D","o","c","k","e","r">>, kind |-> "items",
     tech |-> {<<"D","o","c","k","e","r">>}, soft |-> {<<"L","e","a","d","e","r","s","h","i","p">>}],
    [text |-> <<"P","r","o","j","e","c","t"," ","s","k","i","l","l","s">>, kind |-> "stop_word_and_skill",
     tech |-> {}, soft |-> {}],
    [text |-> <<"S","k","i","l","l","s"," ","a","n","d"," ","E","x","p","e","r","i","e","n","c","e">>, kind |-> "mixed_header",
     tech |-> {}, soft |-> {}],
    [text |-> <<"R","e","a","d","i","n","g">>, kind |-> "items",
     tech |-> {}, soft |-> {}]
  }

HeaderKinds == {"mixed_header", "tech_header", "soft_header"}

\* the scan state that the variables hold
scan_state ==
  [current_section |-> current_section,
   seen_any_skills_header |-> seen_any_skills_header,
   soft_skills |-> soft_skills,
   technical_skills |-> technical_skills,
   mixed_section_lines |-> mixed_section_lines]

\* scan_line on every line of SkillLines and every section mode
SCANNED ==
  [l \in SkillLines |->
     [s \in {"None", "soft", "technical", "mixed"} |->
        scan_line([current_section |-> s, seen_any_skills_header |-> FALSE,
                   soft_skills |-> <<>>, technical_skills |-> <<>>,
                   mixed_section_lines |-> <<>>], l.text)]]

\* bucket_of on every token of the lines of SkillLines
ITEMS_PAIRS == {<<l.text, split_items(l.text)>> : l \in SkillLines}

\* split_items on every line of SkillLines
ITEMS_OF ==
  [t \in {p[1] : p \in ITEMS_PAIRS} |-> (CHOOSE p \in ITEMS_PAIRS : p[1] = t)[2]]

BUCKET_PAIRS == {<<tok, bucket_of(tok)>> : tok \in UNION {Elems(p[2]) : p \in ITEMS_PAIRS}}

\* bucket_of on every token of the lines of SkillLines
BUCKET_OF ==
  [tok \in {p[1] : p \in BUCKET_PAIRS} |-> (CHOOSE p \in BUCKET_PAIRS : p[1] = tok)[2]]

InitScan ==
  /\ pc = "scanning"
  /\ line = [text |-> <<>>, kind |-> "none", tech |-> {}, soft |-> {}]
  /\ n_lines = 0
  /\ current_section = "None"
  /\ seen_any_skills_header = FALSE
  /\ soft_skills = <<>>
  /\ technical_skills = <<>>
  /\ mixed_section_lines = <<>>
  /\ skills_result = None
  /\ IdleScore /\ IdleToken /\ IdleText /\ IdleClean /\ IdleJobs /\ IdlePosting /\ IdleSeniority /\ IdleRanking /\ IdleUpload /\ IdleLlm /\ IdleFiles /\ IdleUploads /\ IdleEmail /\ IdleMatcher /\ IdleGithub /\ IdleEnrich

\* one turn of the loop over sorted_lines
ScanLine(l) ==
  /\ pc = "scanning"
  /\ n_lines < MaxLines
  /\ LET d == SCANNED[l][current_section]
     IN  /\ current_section' = d.current_section
         /\ seen_any_skills_header' = (seen_any_skills_header \/ d.seen_any_skills_header)
         /\ soft_skills' = soft_skills \o d.soft_skills
         /\ technical_skills' = technical_skills \o d.technical_skills
         /\ mixed_section_lines' = mixed_section_lines \o d.mixed_section_lines
  /\ line' = l
  /\ n_lines' = n_lines + 1
  /\ UNCHANGED <<pc, skills_result>>

\* the end of the loop: auto-split, removal of repeats, scoring
ScoreSkills ==
  /\ pc = "scanning"
  /\ LET b == final_buckets(scan_state, ITEMS_OF, BUCKET_OF)
     IN  /\ soft_skills' = b.soft_skills
         /\ technical_skills' = b.technical_skills
         /\ skills_result' = skills_score(b.soft_skills # <<>>, b.technical_skills # <<>>,
                                   seen_any_skills_header)
                             @@ [soft_count |-> Len(b.soft_skills), tech_count |-> Len(b.technical_skills)]
  /\ pc' = "scored"
  /\ UNCHANGED <<line, n_lines, current_section, seen_any_skills_header, mixed_section_lines>>

NextScan ==
  /\ \/ \E l \in SkillLines : ScanLine(l)
     \/ ScoreSkills
  /\ UNCHANGED <<varsScore, varsToken, varsText, varsClean, varsJobs, varsPosting,
                 varsSeniority, varsRanking, varsUpload, varsLlm, varsFiles, varsUploads, varsEmail, varsMatcher, varsGithub, varsEnrich>>

SpecScan == InitScan /\ [][NextScan]_vars

\* the score the final state of the scan must get
ExpectedSkillsScore ==
  IF technical_skills # <<>> /\ soft_skills # <<>> THEN 10
  ELSE IF technical_skills # <<>> THEN 7
  ELSE IF soft_skills # <<>> THEN 6
  ELSE IF seen_any_skills_header THEN 4
  ELSE 2

\* C23: the score is 10 when both buckets are non-empty at the end of the
\* scan, 7 when only the technical one is, 6 when only the soft one is, 4
\* when both are empty and a skills header line was seen, and 2 otherwise;
\* the header-seen flag, once set, is never cleared.
SkillsScoreFromFinalState ==
  /\ [](pc = "scored" => skills_result.score = ExpectedSkillsScore)
  /\ [][seen_any_skills_header => seen_any_skills_header']_vars

\* a skills header was read, then lines that leave both buckets empty
SkillsScoreFromFinalStateWitness ==
  /\ pc = "scored"
  /\ skills_result.score = 4
  /\ n_lines >= 2
  /\ line.kind \notin HeaderKinds

\* nothing is added to the buckets or to the mixed list
NothingCollected ==
  /\ soft_skills' = soft_skills
  /\ technical_skills' = technical_skills
  /\ mixed_section_lines' = mixed_section_lines

\* C24: a stop header line that does not mention "skill" resets the section
\* to None; while the section is None no line is added to the soft bucket,
\* the technical bucket or the mixed list, and only a skills header line
\* ends that; a short line with a stop word that mentions "skill" does not
\* reset the section; a header line is never collected as an item.
StopHeaderEndsCollection ==
  [][(pc = "scanning" /\ pc' = "scanning") =>
       /\ line'.kind = "stop" => current_section' = "None" /\ NothingCollected
       /\ (current_section = "None" /\ line'.kind \notin HeaderKinds) =>
            current_section' = "None" /\ NothingCollected
       /\ (line'.kind = "stop_word_and_skill" /\ current_section # "None") =>
            current_section' = current_section /\ ~NothingCollected
       /\ line'.kind \in HeaderKinds => current_section' # "None" /\ NothingCollected]_vars

\* lines of items were collected, a stop header was read, and the line of
\* items read after it was not collected
StopHeaderEndsCollectionWitness ==
  /\ pc = "scanning"
  /\ line.kind = "items"
  /\ current_section = "None"
  /\ seen_any_skills_header
  /\ Len(mixed_section_lines) + Len(technical_skills) + Len(soft_skills) > 0

\* C25: every token of a line collected under the generic Skills header is
\* classified: one that matches the skill vocabulary is in the technical
\* bucket and one that matches the soft-skill lexicon is in the soft
\* bucket, also when the CV has a technical or soft skills section with
\* items.
MixedLinesAreClassified ==
  pc = "scored" =>
    \A i \in DOMAIN mixed_section_lines :
      \A l \in SkillLines :
        l.text = mixed_section_lines[i] =>
          /\ l.tech \subseteq Elems(technical_skills)
          /\ l.soft \subseteq Elems(soft_skills)

(***************************************************************************)
(* check_professional_email on the text of a CV                            *)
(***************************************************************************)
\* number of fragments a sample text is written from
MaxPieces == 4

\* [A-Za-z0-9._%+-]
EMAIL_LOCAL_CLASS == LowerLetters \cup {"DIGIT", ".", "_", "%", "+", "-"}

\* [A-Za-z0-9.-]
EMAIL_DOMAIN_CLASS == LowerLetters \cup {"DIGIT", ".", "-"}

\* r"\b[A-Za-z0-9._%+-]+@[A-Za-z0-9.-]+\.[A-Za-z]{2,}\b"
EMAIL_PATTERN ==
  <<WB, Plus(EMAIL_LOCAL_CLASS), Lit(<<"@">>), Plus(EMAIL_DOMAIN_CLASS), Lit(<<".">>),
    RepN(LowerLetters, 2, -1), WB>>

\* the positions of text where re.findall finds the start of an e-mail
email_starts(text) == {i \in DOMAIN text : MatchEnds(EMAIL_PATTERN, 1, text, i) # {}}

\* emails[0].split("@")[0].lower(); text has an e-mail
first_local(text) ==
  LET i  == SeqMin(email_starts(text))
      at == SeqMin({j \in i..Len(text) : text[j] = "@"})
  IN  lower(SubSeq(text, i, at - 1))

SLANG == {<<"c","o","o","l">>, <<"h","o","t">>, <<"s","e","x","y">>, <<"b","o","s","s">>, <<"k","i","n","g">>, <<"q","u","e","e","n">>, <<"s","w","a","g">>, <<"n","i","n","j","a">>, <<"d","e","v","i","l">>, <<"a","n","g","e","l">>, <<"x","o","x","o">>}

\* any(w in local for w in slang)
contains_informal_word(local) == \E w \in SLANG : Contains(w, local)

\* re.search(r"\d{4,}", local)
has_long_number(local) == re_search(<<RepN({"DIGIT"}, 4, -1)>>, local)

\* the count of symbols compared with >= 3
uses_many_symbols_from_three(local) ==
  Cardinality({i \in DOMAIN local : local[i] \in {".", "_", "-"}}) >= 3

\* len(re.findall(r"[._-]", local)) > 3
uses_many_symbols(local) ==
  Cardinality({i \in DOMAIN local : local[i] \in {".", "_", "-"}}) > 3

\* check_professional_email on bundle["text"]: the result with its reasons
check_professional_email_on(text) ==
  IF email_starts(text) = {}
    THEN check_professional_email([raise |-> FALSE, emails |-> FALSE, slang |-> FALSE,
                                   long_number |-> FALSE, many_symbols |-> FALSE])
         @@ [reasons |-> <<>>]
    ELSE LET local == first_local(text)
             f == [raise |-> FALSE, emails |-> TRUE,
                   slang |-> contains_informal_word(local),
                   long_number |-> has_long_number(local),
                   many_symbols |-> uses_many_symbols(local)]
         IN  check_professional_email(f)
             @@ [reasons |-> (IF f.slang THEN <<"contains informal word">> ELSE <<>>)
                             \o (IF f.long_number THEN <<"has long number sequence">> ELSE <<>>)
                             \o (IF f.many_symbols THEN <<"uses many symbols">> ELSE <<>>)]

\* the fragments of the sample texts: their characters, whether they begin
\* with a word character, whether they hold an informal word, their digits,
\* their symbols . _ -, and whether they are the domain of an e-mail
EmailPieces ==
  {[text |-> <<"a","n","n">>, word |-> TRUE, informal |-> FALSE, digits |-> 0, symbols |-> 0, domain |-> FALSE],
   [text |-> <<"K","i","n","g","_">>, word |-> TRUE, informal |-> TRUE, digits |-> 0, symbols |-> 1, domain |-> FALSE],
   [text |-> <<"1","2","3">>, word |-> TRUE, informal |-> FALSE, digits |-> 3, symbols |-> 0, domain |-> FALSE],
   [text |-> <<"1","2","3","4">>, word |-> TRUE, informal |-> FALSE, digits |-> 4, symbols |-> 0, domain |-> FALSE],
   [text |-> <<".","-",".">>, word |-> FALSE, informal |-> FALSE, digits |-> 0, symbols |-> 3, domain |-> FALSE],
   [text |-> <<"@","x",".","l","k"," ">>, word |-> FALSE, informal |-> FALSE, digits |-> 0, symbols |-> 0, domain |-> TRUE]}

InitEmail ==
  /\ pc = "writing"
  /\ pieces = <<>>
  /\ full_text = <<>>
  /\ email_result = None
  /\ IdleScore /\ IdleToken /\ IdleText /\ IdleClean /\ IdleJobs /\ IdlePosting /\ IdleSeniority /\ IdleRanking /\ IdleUpload /\ IdleLlm /\ IdleFiles /\ IdleUploads /\ IdleScan /\ IdleMatcher /\ IdleGithub /\ IdleEnrich

\* one more fragment of the text of the CV
WriteText(p) ==
  /\ pc = "writing"
  /\ Len(pieces) < MaxPieces
  /\ pieces' = Append(pieces, p)
  /\ full_text' = full_text \o p.text
  /\ UNCHANGED <<pc, email_result>>

CheckProfessionalEmail ==
  /\ pc = "writing"
  /\ email_result' = check_professional_email_on(full_text)
  /\ pc' = "checked"
  /\ UNCHANGED <<pieces, full_text>>

NextEmail ==
  /\ \/ \E p \in EmailPieces : WriteText(p)
     \/ CheckProfessionalEmail
  /\ UNCHANGED <<varsScore, varsToken, varsText, varsClean, varsJobs, varsPosting,
                 varsSeniority, varsRanking, varsUpload, varsLlm, varsFiles, varsUploads, varsScan, varsMatcher, varsGithub, varsEnrich>>

SpecEmail == InitEmail /\ [][NextEmail]_vars

\* the fragments of the local part of the first e-mail of the text: those
\* between the first fragment with a word character that follows the
\* previous domain (or the start of the text) and the first domain after it
HasLocal(d) ==
  /\ pieces[d].domain
  /\ \E k \in 1..(d - 1) : pieces[k].word /\ \A j \in k..(d - 1) : ~pieces[j].domain

HasEmail == \E d \in DOMAIN pieces : HasLocal(d)

LocalPieces ==
  LET d == SeqMin({e \in DOMAIN pieces : HasLocal(e)})
      k == SeqMin({j \in 1..(d - 1) : pieces[j].word /\ \A m \in j..(d - 1) : ~pieces[m].domain})
  IN  SubSeq(pieces, k, d - 1)

RECURSIVE symbols_in(_)
symbols_in(ps) == IF ps = <<>> THEN 0 ELSE Head(ps).symbols + symbols_in(Tail(ps))

\* the red flags the local part of the first e-mail raises
Flags ==
  LET ps == LocalPieces
  IN  {"contains informal word" : i \in {j \in DOMAIN ps : ps[j].informal}}
      \cup {"has long number sequence" :
              i \in {j \in DOMAIN ps : \/ ps[j].digits >= 4
                                       \/ /\ ps[j].digits > 0
                                          /\ j < Len(ps)
                                          /\ ps[j].digits + ps[j + 1].digits >= 4}}
      \cup {"uses many symbols" : i \in {j \in {1} : symbols_in(ps) > 3}}

\* status, and the reasons that list exactly the flags
StatusAndReasons ==
  IF ~HasEmail
    THEN email_result.status = "error" /\ email_result.score = 0
    ELSE /\ email_result.status = "success"
         /\ Elems(email_result.reasons) = Flags
         /\ Len(email_result.reasons) = Cardinality(Flags)

\* C26 as stated: no e-mail gives 0 with status error; no flag gives 10, one
\* or two flags give 8, three flags give 6; the reasons are the flags raised.
EmailScoreByNumberOfFlags ==
  pc = "checked" =>
    /\ StatusAndReasons
    /\ HasEmail => email_result.score = Tenths(IF Cardinality(Flags) = 0 THEN 10
                                               ELSE IF Cardinality(Flags) <= 2 THEN 8
                                               ELSE 6)

\* C26: no e-mail gives 0 with status error; no flag gives 10; an informal
\* word together with another flag gives 6 (the informal word counts two
\* risk points, the others one each, and three points or more give 6); any
\* other flags give 8; the reasons are the flags raised.
EmailScoreByRiskPoints ==
  pc = "checked" =>
    /\ StatusAndReasons
    /\ HasEmail => email_result.score =
                     Tenths(IF Flags = {} THEN 10
                            ELSE IF "contains informal word" \in Flags /\ Cardinality(Flags) >= 2
                              THEN 6
                            ELSE 8)

\* an informal word and a long number, and nothing else: two flags, score 6
EmailScoreByRiskPointsWitness ==
  /\ pc = "checked"
  /\ HasEmail
  /\ Flags = {"contains informal word", "has long number sequence"}
  /\ email_result.score = Tenths(6)

(***************************************************************************)
(* Task 05: JobMatcher and get_job_matcher                                 *)
(***************************************************************************)
\* number of rows of the job dataset
MaxCorpus == 2

\* rows of the dataset: title, location, and the cosine similarity (in
\* hundredths) of the row's combined_text with each of the sample queries
MatcherRows ==
  {[title |-> "Junior Developer", location |-> <<"C","o","l","o","m","b","o">>, similarity |-> [python |-> 80, react |-> 55]],
   [title |-> "QA Engineer", location |-> <<"K","a","n","d","y">>, similarity |-> [python |-> 55, react |-> 55]],
   [title |-> "Cloud Trainee", location |-> <<"C","o","l","o","m","b","o"," ","0","3">>, similarity |-> [python |-> 0, react |-> 70]]}

\* the datasets load_data can find (the file, or the sample jobs)
Datasets == UNION {[1..n -> MatcherRows] : n \in 1..MaxCorpus}

\* user_skills of the calls: the queries the similarities are given for
Queries == {"python", "react"}

\* location_filter of the calls
MatcherLocationFilters == {<<"A","l","l">>, <<"c","o","l","o","m","b","o">>, <<"G","a","l","l","e">>}

\* top_n of the calls
MatcherTopN == {0, 1, 5}

\* the frame self.df after get_recommendations, were df_filtered not a copy
self_df_without_copy(frame, df_filtered) == df_filtered

\* the frame self.df after get_recommendations: df_filtered is a copy
\* (self.df.copy(), then df_filtered.copy()), so the column
\* similarity_score and the filter do not reach self.df
self_df(frame, df_filtered) == frame

\* df_filtered[df_filtered["location"].str.contains(location_filter, case=False)]
filter_location(frame, location_filter) ==
  IF location_filter # <<"A","l","l">> /\ location_filter # <<>>
    THEN SelectSeq(frame, LAMBDA row : Contains(lower(location_filter), lower(row.location)))
    ELSE frame

\* df_filtered with the column similarity_score
with_similarity(frame, query) ==
  [i \in DOMAIN frame |-> [title |-> frame[i].title, location |-> frame[i].location,
                        similarity |-> frame[i].similarity,
                        similarity_score |-> frame[i].similarity[query]]]

\* the orders sort_values("similarity_score", ascending=False) can leave
\* the rows in
sort_by_similarity(rows) ==
  LET n == Len(rows)
      orders == {p \in [1..n -> 1..n] :
                   /\ \A i, j \in 1..n : i # j => p[i] # p[j]
                   /\ \A i, j \in 1..n :
                        i < j => rows[p[i]].similarity_score >= rows[p[j]].similarity_score}
  IN  {[i \in 1..n |-> rows[p[i]]] : p \in orders}

\* one entry of the result of get_recommendations
recommendation(row) ==
  LET match_percentage == row.similarity_score
  IN  [title |-> row.title, location |-> row.location, match_score |-> match_percentage,
       match_level |-> IF match_percentage >= 70 THEN "high"
                       ELSE IF match_percentage >= 50 THEN "medium"
                       ELSE "low"]

\* the results get_recommendations can return, with the frame it leaves
get_recommendations(frame, query, location_filter, top_n_arg) ==
  LET df_filtered == filter_location(frame, location_filter)
  IN  IF Len(df_filtered) = 0
        THEN {[results |-> <<>>, df |-> self_df(frame, df_filtered)]}
        ELSE LET with_scores == with_similarity(df_filtered, query)
             IN  {[results |-> [i \in DOMAIN head(s, top_n_arg) |-> recommendation(s[i])],
                   df |-> self_df(frame, with_scores)] : s \in sort_by_similarity(with_scores)}

\* get_skills_gap_analysis, match_percentage in whole percents
get_skills_gap_analysis(user_skills_set, job_skills_set) ==
  LET has_skills == user_skills_set \cap job_skills_set
      missing_skills == job_skills_set \ user_skills_set
  IN  [has_skills |-> has_skills, missing_skills |-> missing_skills,
       total_match |-> Cardinality(has_skills), total_gap |-> Cardinality(missing_skills),
       match_percentage |-> IF job_skills_set # {}
                              THEN (Cardinality(has_skills) * 100) \div Cardinality(job_skills_set)
                              ELSE 0]

\* get_market_insights on the result of get_recommendations(top_n=100)
market_insights(recs) ==
  IF recs = <<>> THEN [total_jobs |-> 0]
  ELSE [total_jobs |-> Len(recs),
        high_match_count |-> Cardinality({i \in DOMAIN recs :
                                            recs[i].match_level = "high"}),
        medium_match_count |-> Cardinality({i \in DOMAIN recs :
                                              recs[i].match_level = "medium"})]

InitMatcher ==
  /\ pc = "running"
  /\ job_matcher_instance = NoMatcher
  /\ matchers = <<>>
  /\ matcher = NoMatcher
  /\ call = NoCall
  /\ IdleScore /\ IdleToken /\ IdleText /\ IdleClean /\ IdleJobs /\ IdlePosting /\ IdleSeniority /\ IdleRanking /\ IdleUpload /\ IdleLlm /\ IdleFiles /\ IdleUploads /\ IdleScan /\ IdleEmail /\ IdleGithub /\ IdleEnrich

\* get_job_matcher(): creates the JobMatcher, which loads the dataset, when
\* the global is None; returns the global
GetJobMatcher ==
  /\ IF job_matcher_instance = NoMatcher
       THEN \E dataset \in Datasets :
              /\ matchers' = Append(matchers, dataset)
              /\ job_matcher_instance' = Len(matchers) + 1
       ELSE UNCHANGED <<matchers, job_matcher_instance>>
  /\ matcher' = job_matcher_instance'
  /\ call' = [op |-> "get_job_matcher", top_n |-> 0, results |-> <<>>]
  /\ pc' = pc

\* matcher.get_recommendations(user_skills, location_filter, top_n)
GetRecommendations(user_skills_arg, location_filter, top_n_arg) ==
  /\ matcher # NoMatcher
  /\ \E r \in get_recommendations(matchers[matcher], user_skills_arg, location_filter, top_n_arg) :
       /\ matchers' = [matchers EXCEPT ![matcher] = r.df]
       /\ call' = [op |-> "get_recommendations", top_n |-> top_n_arg, results |-> r.results]
  /\ UNCHANGED <<pc, job_matcher_instance, matcher>>

\* matcher.get_skills_gap_analysis(user_skills, job_requirements)
GetSkillsGapAnalysis(user_skills_set, job_skills_set) ==
  /\ matcher # NoMatcher
  /\ call' = [op |-> "get_skills_gap_analysis", top_n |-> 0,
              results |-> get_skills_gap_analysis(user_skills_set, job_skills_set)]
  /\ UNCHANGED <<pc, job_matcher_instance, matchers, matcher>>

\* matcher.get_market_insights(user_skills)
GetMarketInsights(user_skills_arg) ==
  /\ matcher # NoMatcher
  /\ \E r \in get_recommendations(matchers[matcher], user_skills_arg, <<"A","l","l">>, 100) :
       /\ matchers' = [matchers EXCEPT ![matcher] = r.df]
       /\ call' = [op |-> "get_market_insights", top_n |-> 100,
                   results |-> market_insights(r.results)]
  /\ UNCHANGED <<pc, job_matcher_instance, matcher>>

NextMatcher ==
  /\ \/ GetJobMatcher
     \/ \E q \in Queries, l \in MatcherLocationFilters, n \in MatcherTopN :
          GetRecommendations(q, l, n)
     \/ \E u, j \in SUBSET Queries : GetSkillsGapAnalysis(u, j)
     \/ \E q \in Queries : GetMarketInsights(q)
  /\ UNCHANGED <<varsScore, varsToken, varsText, varsClean, varsJobs, varsPosting,
                 varsSeniority, varsRanking, varsUpload, varsLlm, varsFiles, varsUploads, varsScan, varsEmail, varsGithub, varsEnrich>>

SpecMatcher == InitMatcher /\ [][NextMatcher]_vars

\* C27: get_job_matcher creates one matcher, on its first call, and every
\* later call returns that matcher; no call of get_recommendations,
\* get_skills_gap_analysis or get_market_insights changes the frame of the
\* matcher; get_recommendations returns at most top_n jobs.
MatcherLoadedOnceAndReadOnly ==
  /\ [](/\ Len(matchers) <= 1
        /\ call.op = "get_recommendations" => Len(call.results) <= call.top_n)
  /\ [][job_matcher_instance # NoMatcher =>
          /\ job_matcher_instance' = job_matcher_instance
          /\ matcher' = job_matcher_instance
          /\ matchers' = matchers]_vars

\* get_recommendations has cut the list of a dataset of two rows to one
MatcherLoadedOnceAndReadOnlyWitness ==
  /\ matcher # NoMatcher
  /\ matcher = job_matcher_instance
  /\ Len(matchers[matcher]) >= 2
  /\ call.op = "get_recommendations"
  /\ call.top_n = 1
  /\ Len(call.results) = 1

(***************************************************************************)
(* validate_github_links on the links of a CV                              *)
(***************************************************************************)
\* number of GitHub links of a CV
MaxLinks == 4

\* len([u for u in links of the type if github_url_exists(u)])
count_valid(links, type) ==
  Cardinality({i \in DOMAIN links : links[i].type = type /\ links[i].valid})

\* validate_github_links on the links found in the CV
validate_github_links_on(links) ==
  validate_github_links([raise |-> FALSE, links |-> links # <<>>,
                         valid_profile |-> count_valid(links, "profile"),
                         valid_repo |-> count_valid(links, "repo")])

InitGithub ==
  /\ pc = "validated"
  /\ cv_links = <<>>
  /\ github_result = validate_github_links_on(<<>>)
  /\ IdleScore /\ IdleToken /\ IdleText /\ IdleClean /\ IdleJobs /\ IdlePosting /\ IdleSeniority /\ IdleRanking /\ IdleUpload /\ IdleLlm /\ IdleFiles /\ IdleUploads /\ IdleScan /\ IdleEmail /\ IdleMatcher /\ IdleEnrich

\* the CV with one more GitHub link, validated
ValidateWithOneMoreLink(type, valid) ==
  /\ Len(cv_links) < MaxLinks
  /\ cv_links' = Append(cv_links, [url |-> Len(cv_links) + 1, type |-> type, valid |-> valid])
  /\ github_result' = validate_github_links_on(cv_links')
  /\ pc' = pc

NextGithub ==
  /\ \E type \in {"profile", "repo"}, valid \in BOOLEAN : ValidateWithOneMoreLink(type, valid)
  /\ UNCHANGED <<varsScore, varsToken, varsText, varsClean, varsJobs, varsPosting,
                 varsSeniority, varsRanking, varsUpload, varsLlm, varsFiles, varsUploads, varsScan, varsEmail, varsMatcher, varsEnrich>>

SpecGithub == InitGithub /\ [][NextGithub]_vars

\* C28: one more reachable link never lowers the score, and a CV with a
\* reachable link never scores lower than a CV without any GitHub link.
GithubScoreIsMonotone ==
  /\ []((\E i \in DOMAIN cv_links : cv_links[i].valid) =>
          github_result.score >= validate_github_links_on(<<>>).score)
  /\ [][cv_links'[Len(cv_links')].valid => github_result'.score >= github_result.score]_vars

(***************************************************************************)
(* enrich_csv_with_descriptions and the scrape cache                       *)
(***************************************************************************)
\* number of enrichment runs
MaxRuns == 2

Runs == 1..MaxRuns

\* the input files of the runs: the url and the description of each row; a
\* description is empty or usable (not generic, 40 characters or more)
CsvSamples ==
  {<<[url |-> "u1", description |-> ""]>>,
   <<[url |-> "u2", description |-> ""]>>,
   <<[url |-> "u1", description |-> "usable"], [url |-> "", description |-> ""]>>}

\* what scrape_job_page returns for a page: its description, "" after a
\* 404 or MAX_RETRIES failed attempts
ScrapeOutcomes == {"", "scraped"}

\* _needs_scrape(row)
needs_scrape(row, force_rescrape) ==
  force_rescrape \/ row.description # "usable"

\* the rows of to_scrape, by their index
RECURSIVE to_scrape(_, _, _)
to_scrape(rows, force_rescrape, i) ==
  IF i > Len(rows) THEN <<>>
  ELSE (IF needs_scrape(rows[i], force_rescrape) THEN <<i>> ELSE <<>>)
       \o to_scrape(rows, force_rescrape, i + 1)

\* the cache is consulted only for an entry that is not empty
cache_hit_unless_empty(force_rescrape, url, cache) ==
  ~force_rescrape /\ url \in DOMAIN cache /\ cache[url] # ""

\* not force_rescrape and url in cache
cache_hit(force_rescrape, url, cache) ==
  ~force_rescrape /\ url \in DOMAIN cache

\* load_cache(cache_path): the dict of the rows of the file
load_cache(file) == file

\* save_cache(cache, cache_path): the file becomes the rows of the dict,
\* unless the dict is empty
save_cache(cache, file) == IF cache # EmptyCache THEN cache ELSE file

InitEnrich ==
  /\ pc = "enriching"
  /\ cache_file = EmptyCache
  /\ runs = [r \in Runs |-> [at |-> "idle", force_rescrape |-> FALSE, csv |-> <<>>,
                             df |-> <<>>, cache |-> EmptyCache, loaded |-> EmptyCache,
                             todo |-> <<>>, scraped |-> 0, requested |-> {}]]
  /\ IdleScore /\ IdleToken /\ IdleText /\ IdleClean /\ IdleJobs /\ IdlePosting /\ IdleSeniority /\ IdleRanking /\ IdleUpload /\ IdleLlm /\ IdleFiles /\ IdleUploads /\ IdleScan /\ IdleEmail /\ IdleMatcher /\ IdleGithub

\* the run reads its input file and loads the cache; without a row to
\* scrape it writes its output and returns
StartRun(r, rows, force_rescrape) ==
  /\ runs[r].at = "idle"
  /\ LET cache == load_cache(cache_file)
         todo  == to_scrape(rows, force_rescrape, 1)
     IN  runs' = [runs EXCEPT ![r] =
                    [at |-> IF todo = <<>> THEN "done" ELSE "rows",
                     force_rescrape |-> force_rescrape, csv |-> rows,
                     df |-> [i \in DOMAIN rows |-> rows[i].description],
                     cache |-> cache, loaded |-> cache,
                     todo |-> todo, scraped |-> 0, requested |-> {}]]
  /\ UNCHANGED <<pc, cache_file>>

\* one pass of the loop over to_scrape; description is what
\* scrape_job_page returns when the page is requested
ProcessRow(r, description) ==
  /\ runs[r].at = "rows"
  /\ runs[r].todo # <<>>
  /\ LET run == runs[r]
         idx == Head(run.todo)
         url == run.csv[idx].url
     IN  IF url = ""
           THEN /\ description = ""
                /\ runs' = [runs EXCEPT ![r].todo = Tail(run.todo)]
                /\ UNCHANGED cache_file
         ELSE IF cache_hit(run.force_rescrape, url, run.cache)
           THEN /\ description = ""
                /\ runs' = [runs EXCEPT ![r].todo = Tail(run.todo),
                                        ![r].df = [run.df EXCEPT ![idx] = run.cache[url]]]
                /\ UNCHANGED cache_file
         ELSE LET new_df    == IF description # ""
                                 THEN [run.df EXCEPT ![idx] = description]
                                 ELSE run.df
                  new_cache == (url :> new_df[idx]) @@ run.cache
              IN  /\ runs' = [runs EXCEPT ![r].todo = Tail(run.todo),
                                          ![r].df = new_df,
                                          ![r].cache = new_cache,
                                          ![r].scraped = run.scraped + 1,
                                          ![r].requested = run.requested \cup {url}]
                  /\ cache_file' = IF (run.scraped + 1) % 10 = 0
                                     THEN save_cache(new_cache, cache_file)
                                     ELSE cache_file
  /\ pc' = pc

\* after the loop: save_cache(cache, cache_path), and the output is written
FinishRun(r) ==
  /\ runs[r].at = "rows"
  /\ runs[r].todo = <<>>
  /\ cache_file' = save_cache(runs[r].cache, cache_file)
  /\ runs' = [runs EXCEPT ![r].at = "done"]
  /\ pc' = pc

NextEnrich ==
  /\ \/ \E r \in Runs, rows \in CsvSamples, force_rescrape \in BOOLEAN :
          StartRun(r, rows, force_rescrape)
     \/ \E r \in Runs, description \in ScrapeOutcomes : ProcessRow(r, description)
     \/ \E r \in Runs : FinishRun(r)
  /\ UNCHANGED <<varsScore, varsToken, varsText, varsClean, varsJobs, varsPosting,
                 varsSeniority, varsRanking, varsUpload, varsLlm, varsFiles, varsUploads, varsScan, varsEmail, varsMatcher, varsGithub>>

SpecEnrich == InitEnrich /\ [][NextEnrich]_vars

\* C29: when the runs, none of them forced, have finished, the cache file
\* has an entry for every URL that one of them scraped and saved.
NoLostCacheUpdate ==
  (\A r \in Runs : runs[r].at = "done" /\ ~runs[r].force_rescrape) =>
    \A r \in Runs : runs[r].requested \subseteq DOMAIN cache_file

\* the rows of a finished run whose URL had an entry in the cache when the
\* run loaded it
CachedRows(r) ==
  {i \in DOMAIN runs[r].csv : runs[r].csv[i].url \in DOMAIN runs[r].loaded}

\* a run that is not forced requests no URL that had an entry in the cache
NoRequestForCachedUrl ==
  \A r \in Runs :
    (runs[r].at # "idle" /\ ~runs[r].force_rescrape) =>
      runs[r].requested \cap DOMAIN runs[r].loaded = {}

\* C30 as stated: a run that is not forced takes the description of every
\* row whose URL has an entry in the cache from the cache, and requests no
\* such URL, also when the entry is empty.
CachedRowsComeFromCache ==
  /\ NoRequestForCachedUrl
  /\ \A r \in Runs :
       (runs[r].at = "done" /\ ~runs[r].force_rescrape) =>
         \A i \in CachedRows(r) : runs[r].df[i] = runs[r].loaded[runs[r].csv[i].url]

\* C30: a run that is not forced requests no URL that has an entry in the
\* cache, also when the entry is empty; a row that needs a description
\* (empty, generic or short) gets the one of the entry, and a row with a
\* usable description keeps its own.
ScrapeCacheIsSticky ==
  /\ NoRequestForCachedUrl
  /\ \A r \in Runs :
       (runs[r].at = "done" /\ ~runs[r].force_rescrape) =>
         \A i \in CachedRows(r) :
           runs[r].df[i] = IF needs_scrape(runs[r].csv[i], FALSE)
                             THEN runs[r].loaded[runs[r].csv[i].url]
                             ELSE runs[r].csv[i].description

\* a run that is not forced has finished with the empty description that an
\* earlier run stored after a failed scrape, without a request
ScrapeCacheIsStickyWitness ==
  \E r \in Runs :
    /\ runs[r].at = "done"
    /\ ~runs[r].force_rescrape
    /\ runs[r].requested = {}
    /\ \E i \in CachedRows(r) :
         /\ runs[r].loaded[runs[r].csv[i].url] = ""
         /\ runs[r].df[i] = ""

====
